---- MODULE Spec2Model ----
(***************************************************************************)
(* Frame-rendering and synchronization engine of HelloTriangleApplication  *)
(* (src/main.cpp): the tick loop, drawFrame, recreateSwapChain, and the    *)
(* GPU / presentation engine / window system they run against.             *)
(*                                                                         *)
(* The host is one control thread whose position is pc.  GPU execution,    *)
(* the presentation engine and the delivery of window events are the       *)
(* environment; window events are delivered only inside glfwPollEvents and *)
(* glfwWaitEvents, the two places where the host runs the event loop.      *)
(***************************************************************************)
EXTENDS Integers, FiniteSets, Sequences, TLC

\* ---------------------------------------------------------------- constants
WIDTH == 800
HEIGHT == 600
MAX_FRAMES_IN_FLIGHT == 2
\* std::numeric_limits<uint32_t>::max(), the all-ones extent a surface reports
\* when it has no size of its own.  The code only compares it for equality;
\* the largest integer of the model stands for it.
UINT32_MAX == 2147483647

\* ------------------------------------------------------------------- bounds
MaxTicks == 3            \* drawFrame calls explored
MaxResize == 1           \* window sizes explored besides WIDTH x HEIGHT
MaxMinImageCount == 1    \* surface minImageCount range 1..MaxMinImageCount
MaxImageCount == 3       \* function-level runs: minImageCount range 1..MaxImageCount
MaxFormats == 3          \* function-level runs: longest list of surface formats
MaxPresentModes == 3     \* function-level runs: longest list of present modes
MaxExtentDim == 2        \* function-level runs: widths and heights 0..MaxExtentDim
MaxFaceVertices == 3     \* function-level runs: longest list of face vertices of a mesh
MaxUpload == 2           \* static upload: host lists of every content up to this length
BigUpload == 1000        \* static upload: length of the one long vertex list

Slots == 0 .. (MAX_FRAMES_IN_FLIGHT - 1)
\* Framebuffer sizes of the window: (0,0) while minimized, else WIDTH x HEIGHT
\* or a size the user dragged it to.
Extents == {<< 0, 0 >>} \cup {<< WIDTH + d, HEIGHT + d >> : d \in 0 .. MaxResize}
IsZeroExtent(e) == e[1] = 0 \/ e[2] = 0

AcquireResults == {"VK_SUCCESS", "VK_SUBOPTIMAL_KHR", "VK_ERROR_OUT_OF_DATE_KHR", "VK_ERROR"}
PresentResults == {"VK_SUCCESS", "VK_SUBOPTIMAL_KHR", "VK_ERROR_OUT_OF_DATE_KHR", "VK_ERROR"}

VARIABLES
    pc,                  \* position of the host control thread
    currentFrame,        \* main.cpp:244
    framebufferResized,  \* main.cpp:246
    inFlightFences,      \* slot -> signaled?
    imageAvailableSemaphores, \* slot -> "unsignaled" | "pending" | "signaled"
    renderFinishedSemaphores, \* slot -> "unsignaled" | "signaled" | "oversignaled"
    commandBuffers,      \* slot -> "initial" | "executable" | "pending"
    graphicsQueue,       \* outstanding graphics submissions
    presentQueue,        \* outstanding present requests
    swapChainImages,     \* image index -> "free" | "acquired" | "queued"
    swapChainExtent,     \* extent the current swapchain was created with
    swapChainAlive,      \* FALSE between cleanupSwapChain and createSwapChain
    windowExtent,        \* live framebuffer size of the window
    width, height,       \* locals of recreateSwapChain
    imageIndex,          \* local of drawFrame
    result,              \* local of drawFrame
    rcReturn,            \* where recreateSwapChain returns to
    tick,                \* number of drawFrame calls started
    tickAcquire,         \* history: acquire result of the running tick
    tickSubmitted,       \* history: the running tick submitted its command buffer
    tickPresented,       \* history: the running tick's image was handed to present
    tickPresent,         \* history: present result of the running tick
    tickRebuilds,        \* history: recreateSwapChain calls of the running tick
    tickResized,         \* history: framebufferResized as read after present
    submittedTicks,      \* history: the ticks whose vkQueueSubmit succeeded
    fenceSubmits,        \* history: slot -> submissions naming the fence since its last reset
    fenceSignals,        \* history: slot -> signals of the fence since its last reset
    uniformBuffersMapped, \* slot -> tick whose updateUniformBuffer wrote it last (0: none)
    fnOp,                \* function-level runs: the function under study
    fnArgs,              \* function-level runs: its arguments
    fnRet,               \* function-level runs: << >> before the call, << value >> after
    swapChainImageViews, \* image index -> the view created for that image
    depthImageView,      \* the depth attachment's view (sized like the swapchain)
    swapChainFramebuffers, \* image index -> [attachments, width, height]
    objects,             \* device object -> "created" | "destroyed"
    m_viewportWidth,     \* Camera: part_000:96
    m_viewportHeight,    \* Camera: part_000:97
    upPc,                \* static upload: position of the host in the upload routine
    upKind,              \* static upload: "vertex" | "index" | "texture" ("none": no upload)
    hostData,            \* static upload: the host list (vertices, indices, pixels)
    stagingBuffer,       \* static upload: [created, alive, data] of the staging buffer
    deviceBuffer,        \* static upload: [created, alive, data] of the device-local object
    oneShot,             \* static upload: state of the one-shot command buffer
    transferQueue,       \* static upload: one-shot submissions outstanding on the graphics queue
    upStage,             \* static upload: one-shot submissions finished and freed
    imageLayout,         \* static upload: layout of the texture image ("none": a buffer)
    m_gameCommand,       \* main.cpp:255, the key mask onKey maintains
    m_command,           \* Camera: part_000:101, the command word update reads
    m_pos,               \* Camera: position along m_forward, in units of |m_forward|
    keysHeld,            \* window system: the keys whose last event was a press
    rcCallback,          \* history: a resize callback ran inside the running recreateSwapChain
    eventsArrived        \* glfwWaitEvents: an event was processed since the call began

vars == << pc, currentFrame, framebufferResized, inFlightFences,
           imageAvailableSemaphores, renderFinishedSemaphores, commandBuffers,
           graphicsQueue, presentQueue, swapChainImages, swapChainExtent,
           swapChainAlive, windowExtent, width, height, imageIndex, result,
           rcReturn, tick, tickAcquire, tickSubmitted, tickPresented,
           tickPresent, tickRebuilds, tickResized, submittedTicks,
           fenceSubmits, fenceSignals, uniformBuffersMapped, fnOp, fnArgs, fnRet,
           upPc, upKind, hostData, stagingBuffer, deviceBuffer, oneShot,
           transferQueue, upStage, swapChainImageViews, depthImageView,
           swapChainFramebuffers, objects, m_viewportWidth, m_viewportHeight,
           imageLayout, m_gameCommand, m_command, m_pos, keysHeld, rcCallback,
           eventsArrived >>

hostVars == << pc, currentFrame, framebufferResized, width, height, imageIndex,
               result, rcReturn, tick, tickAcquire, tickSubmitted,
               tickPresented, tickPresent, tickRebuilds, tickResized, submittedTicks >>
windowVars == << windowExtent >>
swapVars == << swapChainImages, swapChainExtent, swapChainAlive >>
gpuVars == << inFlightFences, imageAvailableSemaphores, renderFinishedSemaphores,
              commandBuffers, graphicsQueue, presentQueue, fenceSubmits, fenceSignals >>
framebufferVars == << swapChainImageViews, depthImageView, swapChainFramebuffers >>
keyVars == << m_gameCommand, m_command, m_pos, keysHeld >>
inputVars == << m_viewportWidth, m_viewportHeight, keyVars, rcCallback, eventsArrived >>
fnVars == << fnOp, fnArgs, fnRet >>
uploadVars == << upPc, upKind, hostData, stagingBuffer, deviceBuffer, oneShot,
                transferQueue, upStage, imageLayout >>

\* ------------------------------------------------------------------ helpers
SlotBusy(i) == \E s \in graphicsQueue : s.slot = i

NextFrame(i) == (i + 1) % MAX_FRAMES_IN_FLIGHT

\* Mutant: one more than the minimum, whatever the maximum.
ImageCountUnclamped(minImageCount, maxImageCount) == minImageCount + 1

\* createSwapChain's image count
ImageCount(minImageCount, maxImageCount) ==
    IF maxImageCount > 0 /\ minImageCount + 1 > maxImageCount
    THEN maxImageCount
    ELSE minImageCount + 1

ImageCounts ==
    { ImageCount(mn, mx) : mn \in 1 .. MaxMinImageCount,
                           mx \in {0} \cup (1 .. (MaxMinImageCount + 1)) }

FreshImages(n) == [k \in 0 .. (n - 1) |-> "free"]

\* createImageViews: one view per swapchain image, in the order of the images.
ImageViews(images) == [k \in DOMAIN images |-> [image |-> k]]

\* createDepthResources: one depth image of the swapchain's size and its view.
DepthImageView(extent) == [image |-> "depthImage", extent |-> extent]

\* Mutant: every framebuffer binds the first image view.
FramebuffersOfFirstView(views, depthView, extent) ==
    [k \in DOMAIN views |-> [attachments |-> << views[0], depthView >>,
                             width |-> extent[1], height |-> extent[2]]]

\* createFramebuffers: one framebuffer per image view, binding that view and
\* the depth view, of the swapchain's size.
Framebuffers(views, depthView, extent) ==
    [k \in DOMAIN views |-> [attachments |-> << views[k], depthView >>,
                             width |-> extent[1], height |-> extent[2]]]

\* The device objects cleanupSwapChain destroys and recreateSwapChain creates again.
SwapChainObjects ==
    {"swapChain", "swapChainImageViews", "depthImage", "depthImageMemory",
     "depthImageView", "swapChainFramebuffers"}

\* The device objects only cleanup() destroys.
PersistentObjects ==
    {"graphicsPipeline", "pipelineLayout", "renderPass", "uniformBuffers",
     "descriptorPool", "descriptorSets", "textureSampler", "textureImageView",
     "textureImage", "descriptorSetLayout", "indexBuffer", "vertexBuffer",
     "renderFinishedSemaphores", "imageAvailableSemaphores", "inFlightFences",
     "commandPool", "commandBuffers"}

\* Mutant: the render pass and the pipeline go down with the swapchain.
DestroyedBySwapChainCleanupWithPipeline(object) ==
    object \in SwapChainObjects \cup {"renderPass", "graphicsPipeline"}

\* Whether cleanupSwapChain destroys the object.
DestroyedBySwapChainCleanup(object) == object \in SwapChainObjects


\* -------------------------------------------------------------------- Init
\* The engine after initVulkan: every per-slot object created, nothing submitted.
EngineInit ==
    /\ pc = "loop"
    /\ currentFrame = 0
    /\ framebufferResized = FALSE
    /\ inFlightFences = [i \in Slots |-> TRUE]
    /\ imageAvailableSemaphores = [i \in Slots |-> "unsignaled"]
    /\ renderFinishedSemaphores = [i \in Slots |-> "unsignaled"]
    /\ commandBuffers = [i \in Slots |-> "initial"]
    /\ graphicsQueue = {}
    /\ presentQueue = {}
    /\ windowExtent = << WIDTH, HEIGHT >>
    /\ swapChainExtent = << WIDTH, HEIGHT >>
    /\ \E n \in ImageCounts : swapChainImages = FreshImages(n)
    /\ swapChainAlive = TRUE
    /\ width = 0
    /\ height = 0
    /\ imageIndex = 0
    /\ result = "VK_SUCCESS"
    /\ rcReturn = "loop"
    /\ tick = 0
    /\ tickAcquire = "none"
    /\ tickSubmitted = FALSE
    /\ tickPresented = FALSE
    /\ tickPresent = "none"
    /\ tickRebuilds = 0
    /\ tickResized = FALSE
    /\ submittedTicks = {}
    /\ fenceSubmits = [i \in Slots |-> 0]
    /\ fenceSignals = [i \in Slots |-> 0]
    /\ uniformBuffersMapped = [i \in Slots |-> 0]
    /\ swapChainImageViews = ImageViews(swapChainImages)
    /\ depthImageView = DepthImageView(swapChainExtent)
    /\ swapChainFramebuffers =
           Framebuffers(swapChainImageViews, depthImageView, swapChainExtent)
    /\ objects = [o \in SwapChainObjects \cup PersistentObjects |-> "created"]
    /\ m_viewportWidth = swapChainExtent[1]
    /\ m_viewportHeight = swapChainExtent[2]

\* No function-level run is in progress.
FnIdle ==
    /\ fnOp = "none"
    /\ fnArgs = << >>
    /\ fnRet = << >>

NoBuffer == [created |-> FALSE, alive |-> FALSE, data |-> << >>]

\* No static upload is in progress.
UploadIdle ==
    /\ upPc = "idle"
    /\ upKind = "none"
    /\ hostData = << >>
    /\ stagingBuffer = NoBuffer
    /\ deviceBuffer = NoBuffer
    /\ oneShot = "none"
    /\ transferQueue = {}
    /\ upStage = 0
    /\ imageLayout = "none"

\* The key and camera side, left out of a run: no key event is delivered and
\* Camera::update is not followed, so m_command is never read.
InputIdle ==
    /\ m_gameCommand = 0
    /\ m_command = "indeterminate"
    /\ m_pos = 0
    /\ keysHeld = {}
    /\ rcCallback = FALSE
    /\ eventsArrived = FALSE

Init == EngineInit /\ FnIdle /\ UploadIdle /\ InputIdle

\* ------------------------------------------------------- window events
\* What one run of the GLFW event loop (glfwPollEvents / glfwWaitEvents) can
\* do to the window: no framebuffer-size event (size and flag untouched), or
\* resize events ending at any size, each calling framebufferResizeCallback.
framebufferResizeCallback(e) ==
    /\ windowExtent' = e
    /\ framebufferResized' = TRUE

ProcessEvents ==
    \/ UNCHANGED << windowExtent, framebufferResized >>
    \/ \E e \in Extents : framebufferResizeCallback(e)

\* ------------------------------------------------------------ main loop
\* mainLoop / tickOneFrame: poll events, then enter drawFrame.
tickOneFrame ==
    /\ pc = "loop"
    /\ tick < MaxTicks
    /\ ProcessEvents
    /\ pc' = "waitFence"
    /\ tick' = tick + 1
    /\ UNCHANGED << currentFrame, width, height, imageIndex, result, rcReturn,
                    tickAcquire, tickSubmitted, tickPresented, tickPresent,
                    tickRebuilds, tickResized, submittedTicks >>
    /\ UNCHANGED swapVars
    /\ UNCHANGED gpuVars
    /\ UNCHANGED uniformBuffersMapped
    /\ UNCHANGED fnVars
    /\ UNCHANGED uploadVars
    /\ UNCHANGED framebufferVars
    /\ UNCHANGED objects
    /\ UNCHANGED inputVars

\* mainLoop: the window was asked to close; leave the loop.
mainLoopExit ==
    /\ pc = "loop"
    /\ pc' = "exitWait"
    /\ UNCHANGED << currentFrame, framebufferResized, width, height, imageIndex,
                    result, rcReturn, tick, tickAcquire, tickSubmitted,
                    tickPresented, tickPresent, tickRebuilds, tickResized, submittedTicks >>
    /\ UNCHANGED windowVars
    /\ UNCHANGED swapVars
    /\ UNCHANGED gpuVars
    /\ UNCHANGED uniformBuffersMapped
    /\ UNCHANGED fnVars
    /\ UNCHANGED uploadVars
    /\ UNCHANGED framebufferVars
    /\ UNCHANGED objects
    /\ UNCHANGED inputVars

\* Mutant: cleanup runs without the device-idle wait.
mainLoopCleanupAtOnce ==
    /\ pc = "exitWait"
    /\ pc' = "done"
    /\ swapChainAlive' = FALSE
    /\ UNCHANGED << swapChainImages, swapChainExtent >>
    /\ UNCHANGED << currentFrame, framebufferResized, width, height, imageIndex,
                    result, rcReturn, tick, tickAcquire, tickSubmitted,
                    tickPresented, tickPresent, tickRebuilds, tickResized, submittedTicks >>
    /\ UNCHANGED windowVars
    /\ UNCHANGED gpuVars
    /\ UNCHANGED uniformBuffersMapped
    /\ UNCHANGED fnVars
    /\ UNCHANGED uploadVars
    /\ UNCHANGED framebufferVars
    /\ objects' = [o \in DOMAIN objects |-> "destroyed"]
    /\ UNCHANGED inputVars

\* mainLoop: vkDeviceWaitIdle, then cleanup.
mainLoopWaitIdle ==
    /\ pc = "exitWait"
    /\ graphicsQueue = {}
    /\ presentQueue = {}
    /\ pc' = "done"
    /\ swapChainAlive' = FALSE
    /\ UNCHANGED << swapChainImages, swapChainExtent >>
    /\ UNCHANGED << currentFrame, framebufferResized, width, height, imageIndex,
                    result, rcReturn, tick, tickAcquire, tickSubmitted,
                    tickPresented, tickPresent, tickRebuilds, tickResized, submittedTicks >>
    /\ UNCHANGED windowVars
    /\ UNCHANGED gpuVars
    /\ UNCHANGED uniformBuffersMapped
    /\ UNCHANGED fnVars
    /\ UNCHANGED uploadVars
    /\ UNCHANGED framebufferVars
    /\ objects' = [o \in DOMAIN objects |-> "destroyed"]
    /\ UNCHANGED inputVars

\* ------------------------------------------------------------ drawFrame
FenceSignaled(i) == inFlightFences[i]

\* Mutant: the wait returns at once (a zero timeout).
FenceWaitReturnsAtOnce(i) == TRUE

\* vkWaitForFences(..., VK_TRUE, UINT64_MAX) returns once the fence is signaled.
FenceWaitReturns(i) == inFlightFences[i]

\* Mutant: the fence is reset right after the wait, before the acquire.
WaitAndResetFences ==
    /\ pc = "waitFence"
    /\ FenceWaitReturns(currentFrame)
    /\ inFlightFences' = [inFlightFences EXCEPT ![currentFrame] = FALSE]
    /\ fenceSubmits' = [fenceSubmits EXCEPT ![currentFrame] = 0]
    /\ fenceSignals' = [fenceSignals EXCEPT ![currentFrame] = 0]
    /\ pc' = "acquire"
    /\ UNCHANGED << currentFrame, framebufferResized, width, height, imageIndex,
                    result, rcReturn, tick, tickAcquire, tickSubmitted,
                    tickPresented, tickPresent, tickRebuilds, tickResized, submittedTicks >>
    /\ UNCHANGED windowVars
    /\ UNCHANGED swapVars
    /\ UNCHANGED << imageAvailableSemaphores, renderFinishedSemaphores,
                    commandBuffers, graphicsQueue, presentQueue >>
    /\ UNCHANGED uniformBuffersMapped
    /\ UNCHANGED fnVars
    /\ UNCHANGED uploadVars
    /\ UNCHANGED framebufferVars
    /\ UNCHANGED objects
    /\ UNCHANGED inputVars

\* vkWaitForFences(inFlightFences[currentFrame], UINT64_MAX)
WaitForFences ==
    /\ pc = "waitFence"
    /\ FenceWaitReturns(currentFrame)
    /\ pc' = "acquire"
    /\ UNCHANGED << currentFrame, framebufferResized, width, height, imageIndex,
                    result, rcReturn, tick, tickAcquire, tickSubmitted,
                    tickPresented, tickPresent, tickRebuilds, tickResized, submittedTicks >>
    /\ UNCHANGED windowVars
    /\ UNCHANGED swapVars
    /\ UNCHANGED gpuVars
    /\ UNCHANGED uniformBuffersMapped
    /\ UNCHANGED fnVars
    /\ UNCHANGED uploadVars
    /\ UNCHANGED framebufferVars
    /\ UNCHANGED objects
    /\ UNCHANGED inputVars

\* Mutant: an out-of-date acquire is treated like a usable one.
AcquireBranchIgnoresOutOfDate(r) ==
    IF r = "VK_ERROR" THEN "failed" ELSE "update"

\* Mutant: a failed acquire is answered with a rebuild instead of a throw.
AcquireBranchRecovers(r) ==
    IF r = "VK_ERROR_OUT_OF_DATE_KHR" \/ r = "VK_ERROR" THEN "recreate"
    ELSE "update"

\* Where drawFrame goes after vkAcquireNextImageKHR returned r.
AcquireBranch(r) ==
    IF r = "VK_ERROR_OUT_OF_DATE_KHR" THEN "recreate"
    ELSE IF r # "VK_SUCCESS" /\ r # "VK_SUBOPTIMAL_KHR" THEN "failed"
    ELSE "update"

\* vkAcquireNextImageKHR and the branch on its result.
AcquireNextImage ==
    /\ pc = "acquire"
    /\ \E r \in AcquireResults :
          /\ result' = r
          /\ tickAcquire' = r
          /\ pc' = AcquireBranch(r)
          /\ IF r \in {"VK_SUCCESS", "VK_SUBOPTIMAL_KHR"}
             THEN \E k \in DOMAIN swapChainImages :
                     /\ swapChainImages[k] = "free"
                     /\ imageIndex' = k
                     /\ swapChainImages' = [swapChainImages EXCEPT ![k] = "acquired"]
                     /\ imageAvailableSemaphores' =
                           [imageAvailableSemaphores EXCEPT ![currentFrame] = "pending"]
             ELSE UNCHANGED << imageIndex, swapChainImages, imageAvailableSemaphores >>
    /\ rcReturn' = "return"
    /\ tickRebuilds' = IF pc' = "recreate" THEN tickRebuilds + 1 ELSE tickRebuilds
    /\ UNCHANGED << currentFrame, framebufferResized, width, height, tick,
                    tickSubmitted, tickPresented, tickPresent, tickResized,
                    submittedTicks >>
    /\ UNCHANGED windowVars
    /\ UNCHANGED << swapChainExtent, swapChainAlive >>
    /\ UNCHANGED << inFlightFences, renderFinishedSemaphores, commandBuffers,
                    graphicsQueue, presentQueue, fenceSubmits, fenceSignals >>
    /\ UNCHANGED uniformBuffersMapped
    /\ UNCHANGED fnVars
    /\ UNCHANGED uploadVars
    /\ UNCHANGED framebufferVars
    /\ UNCHANGED objects
    /\ UNCHANGED inputVars

\* updateUniformBuffer(currentFrame)
updateUniformBuffer ==
    /\ pc = "update"
    /\ uniformBuffersMapped' = [uniformBuffersMapped EXCEPT ![currentFrame] = tick]
    /\ pc' = "resetFence"
    /\ UNCHANGED << currentFrame, framebufferResized, width, height, imageIndex,
                    result, rcReturn, tick, tickAcquire, tickSubmitted,
                    tickPresented, tickPresent, tickRebuilds, tickResized, submittedTicks >>
    /\ UNCHANGED windowVars
    /\ UNCHANGED swapVars
    /\ UNCHANGED gpuVars
    /\ UNCHANGED fnVars
    /\ UNCHANGED uploadVars
    /\ UNCHANGED framebufferVars
    /\ UNCHANGED objects
    /\ UNCHANGED inputVars

\* Mutant: the fence reset is left out.
ResetFencesSkipped ==
    /\ pc = "resetFence"
    /\ pc' = "record"
    /\ UNCHANGED << currentFrame, framebufferResized, width, height, imageIndex,
                    result, rcReturn, tick, tickAcquire, tickSubmitted,
                    tickPresented, tickPresent, tickRebuilds, tickResized, submittedTicks >>
    /\ UNCHANGED windowVars
    /\ UNCHANGED swapVars
    /\ UNCHANGED gpuVars
    /\ UNCHANGED uniformBuffersMapped
    /\ UNCHANGED fnVars
    /\ UNCHANGED uploadVars
    /\ UNCHANGED framebufferVars
    /\ UNCHANGED objects
    /\ UNCHANGED inputVars

\* vkResetFences(inFlightFences[currentFrame])
ResetFences ==
    /\ pc = "resetFence"
    /\ inFlightFences' = [inFlightFences EXCEPT ![currentFrame] = FALSE]
    /\ fenceSubmits' = [fenceSubmits EXCEPT ![currentFrame] = 0]
    /\ fenceSignals' = [fenceSignals EXCEPT ![currentFrame] = 0]
    /\ pc' = "record"
    /\ UNCHANGED << currentFrame, framebufferResized, width, height, imageIndex,
                    result, rcReturn, tick, tickAcquire, tickSubmitted,
                    tickPresented, tickPresent, tickRebuilds, tickResized, submittedTicks >>
    /\ UNCHANGED windowVars
    /\ UNCHANGED swapVars
    /\ UNCHANGED << imageAvailableSemaphores, renderFinishedSemaphores,
                    commandBuffers, graphicsQueue, presentQueue >>
    /\ UNCHANGED uniformBuffersMapped
    /\ UNCHANGED fnVars
    /\ UNCHANGED uploadVars
    /\ UNCHANGED framebufferVars
    /\ UNCHANGED objects
    /\ UNCHANGED inputVars

\* vkResetCommandBuffer + recordCommandBuffer(commandBuffers[currentFrame], imageIndex);
\* vkBeginCommandBuffer / vkEndCommandBuffer may fail, which throws.
recordCommandBuffer ==
    /\ pc = "record"
    /\ \/ /\ commandBuffers' = [commandBuffers EXCEPT ![currentFrame] = "executable"]
          /\ pc' = "submit"
       \/ /\ commandBuffers' = [commandBuffers EXCEPT ![currentFrame] = "initial"]
          /\ pc' = "failed"
    /\ UNCHANGED << currentFrame, framebufferResized, width, height, imageIndex,
                    result, rcReturn, tick, tickAcquire, tickSubmitted,
                    tickPresented, tickPresent, tickRebuilds, tickResized, submittedTicks >>
    /\ UNCHANGED windowVars
    /\ UNCHANGED swapVars
    /\ UNCHANGED << inFlightFences, imageAvailableSemaphores,
                    renderFinishedSemaphores, graphicsQueue, presentQueue,
                    fenceSubmits, fenceSignals >>
    /\ UNCHANGED uniformBuffersMapped
    /\ UNCHANGED fnVars
    /\ UNCHANGED uploadVars
    /\ UNCHANGED framebufferVars
    /\ UNCHANGED objects
    /\ UNCHANGED inputVars

\* vkQueueSubmit(graphicsQueue, submitInfo, inFlightFences[currentFrame])
QueueSubmit ==
    /\ pc = "submit"
    /\ \/ /\ graphicsQueue' = graphicsQueue \cup
                 {[slot |-> currentFrame, image |-> imageIndex, tick |-> tick]}
          /\ commandBuffers' = [commandBuffers EXCEPT ![currentFrame] = "pending"]
          /\ fenceSubmits' = [fenceSubmits EXCEPT ![currentFrame] = @ + 1]
          /\ tickSubmitted' = TRUE
          /\ submittedTicks' = submittedTicks \cup {tick}
          /\ pc' = "present"
       \/ /\ pc' = "failed"
          /\ UNCHANGED << graphicsQueue, commandBuffers, fenceSubmits,
                          tickSubmitted, submittedTicks >>
    /\ UNCHANGED << currentFrame, framebufferResized, width, height, imageIndex,
                    result, rcReturn, tick, tickAcquire, tickPresented,
                    tickPresent, tickRebuilds, tickResized >>
    /\ UNCHANGED windowVars
    /\ UNCHANGED swapVars
    /\ UNCHANGED << inFlightFences, imageAvailableSemaphores,
                    renderFinishedSemaphores, presentQueue, fenceSignals >>
    /\ UNCHANGED uniformBuffersMapped
    /\ UNCHANGED fnVars
    /\ UNCHANGED uploadVars
    /\ UNCHANGED framebufferVars
    /\ UNCHANGED objects
    /\ UNCHANGED inputVars

\* Mutant: a suboptimal present is not a reason to rebuild.
PresentNeedsRecreateStrict(r) ==
    r = "VK_ERROR_OUT_OF_DATE_KHR" \/ framebufferResized

\* Mutant: the resize flag is not looked at.
PresentNeedsRecreateNoFlag(r) ==
    r = "VK_ERROR_OUT_OF_DATE_KHR" \/ r = "VK_SUBOPTIMAL_KHR"

\* Whether drawFrame rebuilds the swapchain after vkQueuePresentKHR returned r.
PresentNeedsRecreate(r) ==
    r = "VK_ERROR_OUT_OF_DATE_KHR" \/ r = "VK_SUBOPTIMAL_KHR" \/ framebufferResized

\* vkQueuePresentKHR and the branch on its result.
QueuePresent ==
    /\ pc = "present"
    /\ \E r \in PresentResults :
          /\ result' = r
          /\ tickPresent' = r
          /\ tickResized' = framebufferResized
          /\ IF r = "VK_ERROR"
             THEN UNCHANGED << presentQueue, swapChainImages, tickPresented >>
             ELSE /\ presentQueue' = presentQueue \cup
                        {[slot |-> currentFrame, image |-> imageIndex, tick |-> tick]}
                  /\ swapChainImages' = [swapChainImages EXCEPT ![imageIndex] = "queued"]
                  /\ tickPresented' = (r \in {"VK_SUCCESS", "VK_SUBOPTIMAL_KHR"})
          /\ IF PresentNeedsRecreate(r)
             THEN /\ framebufferResized' = FALSE
                  /\ pc' = "recreate"
                  /\ rcReturn' = "advance"
                  /\ tickRebuilds' = tickRebuilds + 1
             ELSE /\ pc' = IF r # "VK_SUCCESS" THEN "failed" ELSE "advance"
                  /\ UNCHANGED << framebufferResized, rcReturn, tickRebuilds >>
    /\ UNCHANGED << currentFrame, width, height, imageIndex, tick, tickAcquire,
                    tickSubmitted, submittedTicks >>
    /\ UNCHANGED windowVars
    /\ UNCHANGED << swapChainExtent, swapChainAlive >>
    /\ UNCHANGED << inFlightFences, imageAvailableSemaphores,
                    renderFinishedSemaphores, commandBuffers, graphicsQueue,
                    fenceSubmits, fenceSignals >>
    /\ UNCHANGED uniformBuffersMapped
    /\ UNCHANGED fnVars
    /\ UNCHANGED uploadVars
    /\ UNCHANGED framebufferVars
    /\ UNCHANGED objects
    /\ UNCHANGED inputVars

\* The locals of drawFrame and the history of the tick end with the call.
EndOfTick ==
    /\ imageIndex' = 0
    /\ result' = "VK_SUCCESS"
    /\ rcReturn' = "loop"
    /\ tickAcquire' = "none"
    /\ tickSubmitted' = FALSE
    /\ tickPresented' = FALSE
    /\ tickPresent' = "none"
    /\ tickRebuilds' = 0
    /\ tickResized' = FALSE

\* currentFrame = (currentFrame + 1) % MAX_FRAMES_IN_FLIGHT; drawFrame returns.
AdvanceFrame ==
    /\ pc = "advance"
    /\ currentFrame' = NextFrame(currentFrame)
    /\ pc' = "loop"
    /\ EndOfTick
    /\ UNCHANGED << framebufferResized, width, height, tick, submittedTicks >>
    /\ UNCHANGED windowVars
    /\ UNCHANGED swapVars
    /\ UNCHANGED gpuVars
    /\ UNCHANGED uniformBuffersMapped
    /\ UNCHANGED fnVars
    /\ UNCHANGED uploadVars
    /\ UNCHANGED framebufferVars
    /\ UNCHANGED objects
    /\ UNCHANGED inputVars

\* Mutant: after the rebuild the abandoned tick starts over inside the same call.
drawFrameRetry ==
    /\ pc = "return"
    /\ pc' = "waitFence"
    /\ UNCHANGED << currentFrame, framebufferResized, width, height, imageIndex,
                    result, rcReturn, tick, tickAcquire, tickSubmitted,
                    tickPresented, tickPresent, tickRebuilds, tickResized, submittedTicks >>
    /\ UNCHANGED windowVars
    /\ UNCHANGED swapVars
    /\ UNCHANGED gpuVars
    /\ UNCHANGED uniformBuffersMapped
    /\ UNCHANGED fnVars
    /\ UNCHANGED uploadVars
    /\ UNCHANGED framebufferVars
    /\ UNCHANGED objects
    /\ UNCHANGED inputVars

\* Mutant: the abandoned tick advances the slot index before it returns.
drawFrameReturnAdvances ==
    /\ pc = "return"
    /\ currentFrame' = NextFrame(currentFrame)
    /\ pc' = "loop"
    /\ EndOfTick
    /\ UNCHANGED << framebufferResized, width, height, tick, submittedTicks >>
    /\ UNCHANGED windowVars
    /\ UNCHANGED swapVars
    /\ UNCHANGED gpuVars
    /\ UNCHANGED uniformBuffersMapped
    /\ UNCHANGED fnVars
    /\ UNCHANGED uploadVars
    /\ UNCHANGED framebufferVars
    /\ UNCHANGED objects
    /\ UNCHANGED inputVars

\* recreateSwapChain(); return;  -- the tick abandoned at acquire returns.
drawFrameReturn ==
    /\ pc = "return"
    /\ pc' = "loop"
    /\ EndOfTick
    /\ UNCHANGED << currentFrame, framebufferResized, width, height, tick,
                    submittedTicks >>
    /\ UNCHANGED windowVars
    /\ UNCHANGED swapVars
    /\ UNCHANGED gpuVars
    /\ UNCHANGED uniformBuffersMapped
    /\ UNCHANGED fnVars
    /\ UNCHANGED uploadVars
    /\ UNCHANGED framebufferVars
    /\ UNCHANGED objects
    /\ UNCHANGED inputVars

\* ---------------------------------------------------- recreateSwapChain
\* int width = 0, height = 0; glfwGetFramebufferSize(window, &width, &height);
recreateSwapChainBegin ==
    /\ pc = "recreate"
    /\ width' = windowExtent[1]
    /\ height' = windowExtent[2]
    /\ pc' = "rcLoop"
    /\ UNCHANGED << currentFrame, framebufferResized, imageIndex, result,
                    rcReturn, tick, tickAcquire, tickSubmitted, tickPresented,
                    tickPresent, tickRebuilds, tickResized, submittedTicks >>
    /\ UNCHANGED windowVars
    /\ UNCHANGED swapVars
    /\ UNCHANGED gpuVars
    /\ UNCHANGED uniformBuffersMapped
    /\ UNCHANGED fnVars
    /\ UNCHANGED uploadVars
    /\ UNCHANGED framebufferVars
    /\ UNCHANGED objects
    /\ UNCHANGED inputVars

\* One iteration of while (width == 0 || height == 0):
\* glfwGetFramebufferSize(window, &width, &height); glfwWaitEvents();
recreateSwapChainWait ==
    /\ pc = "rcLoop"
    /\ (width = 0 \/ height = 0)
    /\ width' = windowExtent[1]
    /\ height' = windowExtent[2]
    /\ ProcessEvents
    /\ pc' = "rcLoop"
    /\ UNCHANGED << currentFrame, imageIndex, result, rcReturn, tick,
                    tickAcquire, tickSubmitted, tickPresented, tickPresent,
                    tickRebuilds, tickResized, submittedTicks >>
    /\ UNCHANGED swapVars
    /\ UNCHANGED gpuVars
    /\ UNCHANGED uniformBuffersMapped
    /\ UNCHANGED fnVars
    /\ UNCHANGED uploadVars
    /\ UNCHANGED framebufferVars
    /\ UNCHANGED objects
    /\ UNCHANGED inputVars

\* Mutant: the loop is left for cleanupSwapChain without vkDeviceWaitIdle.
recreateSwapChainNoWaitIdle ==
    /\ pc = "rcLoop"
    /\ ~(width = 0 \/ height = 0)
    /\ pc' = "rcCleanup"
    /\ UNCHANGED << currentFrame, framebufferResized, width, height, imageIndex,
                    result, rcReturn, tick, tickAcquire, tickSubmitted,
                    tickPresented, tickPresent, tickRebuilds, tickResized, submittedTicks >>
    /\ UNCHANGED windowVars
    /\ UNCHANGED swapVars
    /\ UNCHANGED gpuVars
    /\ UNCHANGED uniformBuffersMapped
    /\ UNCHANGED fnVars
    /\ UNCHANGED uploadVars
    /\ UNCHANGED framebufferVars
    /\ UNCHANGED objects
    /\ UNCHANGED inputVars

\* The loop test fails (both locals nonzero); vkDeviceWaitIdle(device).
recreateSwapChainWaitIdle ==
    /\ pc = "rcLoop"
    /\ ~(width = 0 \/ height = 0)
    /\ graphicsQueue = {}
    /\ presentQueue = {}
    /\ pc' = "rcCleanup"
    /\ UNCHANGED << currentFrame, framebufferResized, width, height, imageIndex,
                    result, rcReturn, tick, tickAcquire, tickSubmitted,
                    tickPresented, tickPresent, tickRebuilds, tickResized, submittedTicks >>
    /\ UNCHANGED windowVars
    /\ UNCHANGED swapVars
    /\ UNCHANGED gpuVars
    /\ UNCHANGED uniformBuffersMapped
    /\ UNCHANGED fnVars
    /\ UNCHANGED uploadVars
    /\ UNCHANGED framebufferVars
    /\ UNCHANGED objects
    /\ UNCHANGED inputVars

\* cleanupSwapChain()
cleanupSwapChain ==
    /\ pc = "rcCleanup"
    /\ swapChainAlive' = FALSE
    /\ swapChainImages' = << >>
    /\ swapChainImageViews' = << >>
    /\ swapChainFramebuffers' = << >>
    /\ objects' = [o \in DOMAIN objects |->
                      IF DestroyedBySwapChainCleanup(o) THEN "destroyed" ELSE objects[o]]
    /\ UNCHANGED depthImageView
    /\ pc' = "rcCreate"
    /\ UNCHANGED swapChainExtent
    /\ UNCHANGED << currentFrame, framebufferResized, width, height, imageIndex,
                    result, rcReturn, tick, tickAcquire, tickSubmitted,
                    tickPresented, tickPresent, tickRebuilds, tickResized, submittedTicks >>
    /\ UNCHANGED windowVars
    /\ UNCHANGED gpuVars
    /\ UNCHANGED uniformBuffersMapped
    /\ UNCHANGED fnVars
    /\ UNCHANGED uploadVars
    /\ UNCHANGED inputVars

\* createSwapChain(); createImageViews(); createDepthResources();
\* createFramebuffers(); any of the create calls may fail, which throws.
createSwapChain ==
    /\ pc = "rcCreate"
    /\ \/ /\ swapChainAlive' = TRUE
          /\ swapChainExtent' = windowExtent
          /\ \E n \in ImageCounts : swapChainImages' = FreshImages(n)
          /\ swapChainImageViews' = ImageViews(swapChainImages')
          /\ depthImageView' = DepthImageView(swapChainExtent')
          /\ swapChainFramebuffers' =
                 Framebuffers(swapChainImageViews', depthImageView', swapChainExtent')
          /\ objects' = [o \in DOMAIN objects |->
                            IF o \in SwapChainObjects THEN "created" ELSE objects[o]]
          /\ pc' = rcReturn
       \/ /\ pc' = "failed"
          /\ UNCHANGED swapVars
          /\ UNCHANGED framebufferVars
          /\ UNCHANGED objects
    /\ width' = 0
    /\ height' = 0
    /\ UNCHANGED << currentFrame, framebufferResized, imageIndex, result,
                    rcReturn, tick, tickAcquire, tickSubmitted, tickPresented,
                    tickPresent, tickRebuilds, tickResized, submittedTicks >>
    /\ UNCHANGED windowVars
    /\ UNCHANGED gpuVars
    /\ UNCHANGED uniformBuffersMapped
    /\ UNCHANGED fnVars
    /\ UNCHANGED uploadVars
    /\ UNCHANGED inputVars

\* ---------------------------------------------------------- environment
\* The presentation engine hands the acquired image over: the pending signal
\* of slot i's image-acquired semaphore happens.
ImageReady(i) ==
    /\ imageAvailableSemaphores[i] = "pending"
    /\ imageAvailableSemaphores' = [imageAvailableSemaphores EXCEPT ![i] = "signaled"]
    /\ UNCHANGED << inFlightFences, renderFinishedSemaphores, commandBuffers,
                    graphicsQueue, presentQueue, fenceSubmits, fenceSignals >>
    /\ UNCHANGED hostVars
    /\ UNCHANGED windowVars
    /\ UNCHANGED swapVars
    /\ UNCHANGED uniformBuffersMapped
    /\ UNCHANGED fnVars
    /\ UNCHANGED uploadVars
    /\ UNCHANGED framebufferVars
    /\ UNCHANGED objects
    /\ UNCHANGED inputVars

\* A binary semaphore after a signal operation.  Signaling one whose earlier
\* signal has not been waited on is outside the API's contract: the state
\* "oversignaled" stands for it, and the wait that follows may leave the
\* semaphore signaled or unsignaled.
SignalSemaphore(state) == IF state = "unsignaled" THEN "signaled" ELSE "oversignaled"

AfterWaitSemaphore(state) ==
    IF state = "oversignaled" THEN {"signaled", "unsignaled"} ELSE {"unsignaled"}

\* The GPU finishes graphics submission s: it waited on the slot's
\* image-acquired semaphore and signals render-finished and the fence.
GpuComplete(s) ==
    /\ s \in graphicsQueue
    /\ imageAvailableSemaphores[s.slot] = "signaled"
    /\ imageAvailableSemaphores' = [imageAvailableSemaphores EXCEPT ![s.slot] = "unsignaled"]
    /\ renderFinishedSemaphores' =
          [renderFinishedSemaphores EXCEPT ![s.slot] = SignalSemaphore(@)]
    /\ inFlightFences' = [inFlightFences EXCEPT ![s.slot] = TRUE]
    /\ fenceSignals' = [fenceSignals EXCEPT ![s.slot] = @ + 1]
    /\ graphicsQueue' = graphicsQueue \ {s}
    /\ commandBuffers' = [commandBuffers EXCEPT ![s.slot] =
                             IF \E o \in graphicsQueue' : o.slot = s.slot
                             THEN "pending" ELSE "executable"]
    /\ UNCHANGED << presentQueue, fenceSubmits >>
    /\ UNCHANGED hostVars
    /\ UNCHANGED windowVars
    /\ UNCHANGED swapVars
    /\ UNCHANGED uniformBuffersMapped
    /\ UNCHANGED fnVars
    /\ UNCHANGED uploadVars
    /\ UNCHANGED framebufferVars
    /\ UNCHANGED objects
    /\ UNCHANGED inputVars

\* The present queue executes present request p: it waited on the slot's
\* render-finished semaphore; the image goes back to the presentation engine.
PresentComplete(p) ==
    /\ p \in presentQueue
    /\ renderFinishedSemaphores[p.slot] # "unsignaled"
    /\ \E after \in AfterWaitSemaphore(renderFinishedSemaphores[p.slot]) :
          renderFinishedSemaphores' = [renderFinishedSemaphores EXCEPT ![p.slot] = after]
    /\ presentQueue' = presentQueue \ {p}
    /\ swapChainImages' = IF p.image \in DOMAIN swapChainImages
                          THEN [swapChainImages EXCEPT ![p.image] = "free"]
                          ELSE swapChainImages
    /\ UNCHANGED << swapChainExtent, swapChainAlive >>
    /\ UNCHANGED << inFlightFences, imageAvailableSemaphores, commandBuffers,
                    graphicsQueue, fenceSubmits, fenceSignals >>
    /\ UNCHANGED hostVars
    /\ UNCHANGED windowVars
    /\ UNCHANGED uniformBuffersMapped
    /\ UNCHANGED fnVars
    /\ UNCHANGED uploadVars
    /\ UNCHANGED framebufferVars
    /\ UNCHANGED objects
    /\ UNCHANGED inputVars

Gpu ==
    \/ \E i \in Slots : ImageReady(i)
    \/ \E s \in graphicsQueue : GpuComplete(s)
    \/ \E p \in presentQueue : PresentComplete(p)

Host ==
    \/ tickOneFrame
    \/ mainLoopExit
    \/ mainLoopWaitIdle
    \/ WaitForFences
    \/ AcquireNextImage
    \/ updateUniformBuffer
    \/ ResetFences
    \/ recordCommandBuffer
    \/ QueueSubmit
    \/ QueuePresent
    \/ AdvanceFrame
    \/ drawFrameReturn
    \/ recreateSwapChainBegin
    \/ recreateSwapChainWait
    \/ recreateSwapChainWaitIdle
    \/ cleanupSwapChain
    \/ createSwapChain

Next == Host \/ Gpu

Spec == Init /\ [][Next]_vars


\* The GPU and the presentation engine eventually complete what was handed
\* to them, and the host's fence wait returns once it can.  Window events are
\* under no obligation to arrive.
FairSpec == Spec /\ WF_vars(Gpu) /\ WF_vars(WaitForFences)

\* ------------------------------------------ swapchain selection functions
\* What querySwapChainSupport can report, and the functions createSwapChain
\* applies to it.  A function-level run draws one function and its arguments
\* in its initial state and applies the function in one step.
PreferredFormat ==
    [format |-> "VK_FORMAT_B8G8R8A8_SRGB", colorSpace |-> "VK_COLOR_SPACE_SRGB_NONLINEAR_KHR"]

SurfaceFormats ==
    [format : {"VK_FORMAT_B8G8R8A8_SRGB", "VK_FORMAT_B8G8R8A8_UNORM"},
     colorSpace : {"VK_COLOR_SPACE_SRGB_NONLINEAR_KHR",
                   "VK_COLOR_SPACE_EXTENDED_SRGB_LINEAR_EXT"}]

PresentModes ==
    {"VK_PRESENT_MODE_IMMEDIATE_KHR", "VK_PRESENT_MODE_MAILBOX_KHR",
     "VK_PRESENT_MODE_FIFO_KHR", "VK_PRESENT_MODE_FIFO_RELAXED_KHR"}

SeqsUpTo(S, n) == UNION {[1 .. k -> S] : k \in 0 .. n}

RECURSIVE SurfaceFormatFrom(_, _)
\* The for loop of chooseSwapSurfaceFormat from element k on, and the
\* return availableFormats[0] after it.
SurfaceFormatFrom(availableFormats, k) ==
    IF k > Len(availableFormats) THEN availableFormats[1]
    ELSE IF /\ availableFormats[k].format = "VK_FORMAT_B8G8R8A8_SRGB"
            /\ availableFormats[k].colorSpace = "VK_COLOR_SPACE_SRGB_NONLINEAR_KHR"
         THEN availableFormats[k]
         ELSE SurfaceFormatFrom(availableFormats, k + 1)

\* Mutant: the color space is not looked at.
chooseSwapSurfaceFormatByFormat(availableFormats) ==
    IF \E k \in DOMAIN availableFormats :
           availableFormats[k].format = "VK_FORMAT_B8G8R8A8_SRGB"
    THEN availableFormats[CHOOSE k \in DOMAIN availableFormats :
             /\ availableFormats[k].format = "VK_FORMAT_B8G8R8A8_SRGB"
             /\ \A j \in 1 .. (k - 1) :
                    availableFormats[j].format # "VK_FORMAT_B8G8R8A8_SRGB"]
    ELSE availableFormats[1]

chooseSwapSurfaceFormat(availableFormats) == SurfaceFormatFrom(availableFormats, 1)

RECURSIVE PresentModeFrom(_, _)
\* The for loop of chooseSwapPresentMode from element k on, and the
\* return VK_PRESENT_MODE_FIFO_KHR after it.
PresentModeFrom(availablePresentModes, k) ==
    IF k > Len(availablePresentModes) THEN "VK_PRESENT_MODE_FIFO_KHR"
    ELSE IF availablePresentModes[k] = "VK_PRESENT_MODE_MAILBOX_KHR"
         THEN availablePresentModes[k]
         ELSE PresentModeFrom(availablePresentModes, k + 1)

\* Mutant: FIFO whatever is reported.
chooseSwapPresentModeFifo(availablePresentModes) == "VK_PRESENT_MODE_FIFO_KHR"

chooseSwapPresentMode(availablePresentModes) == PresentModeFrom(availablePresentModes, 1)

\* std::clamp(v, lo, hi)
Clamp(v, lo, hi) == IF v < lo THEN lo ELSE IF hi < v THEN hi ELSE v

\* Mutant: the window size is returned as it is.
chooseSwapExtentUnclamped(capabilities, framebufferSize) ==
    IF capabilities.currentExtent[1] # UINT32_MAX
    THEN capabilities.currentExtent
    ELSE framebufferSize

\* chooseSwapExtent(capabilities); framebufferSize is what
\* glfwGetFramebufferSize(window, ...) answers.
chooseSwapExtent(capabilities, framebufferSize) ==
    IF capabilities.currentExtent[1] # UINT32_MAX
    THEN capabilities.currentExtent
    ELSE << Clamp(framebufferSize[1], capabilities.minImageExtent[1],
                  capabilities.maxImageExtent[1]),
            Clamp(framebufferSize[2], capabilities.minImageExtent[2],
                  capabilities.maxImageExtent[2]) >>

\* isDeviceSuitable's swapChainAdequate.
swapChainAdequate(formats, presentModes) == formats # << >> /\ presentModes # << >>

\* How createSwapChain can end on a surface reporting formats and
\* presentModes when vkCreateSwapchainKHR answers created: it throws
\* ("runtime_error") or returns, and its caller goes on to createImageViews.
\* It looks at neither list's length: an empty presentModes selects FIFO, and
\* an empty formats makes chooseSwapSurfaceFormat read availableFormats[0] of
\* an empty vector, which is undefined: the process may crash, or go on with
\* whatever the read produced.
createSwapChainEnds(formats, presentModes, created) ==
    LET mode == chooseSwapPresentMode(presentModes)
        goesOn == IF created = "VK_SUCCESS" THEN "createImageViews" ELSE "runtime_error"
    IN  IF formats = << >> THEN {"crash", goesOn} ELSE {goesOn}

\* A swapchain create and what precedes it in its caller: at startup
\* pickPhysicalDevice has thrown unless isDeviceSuitable held; recreateSwapChain
\* calls createSwapChain with no test of its own.
SwapChainCreateEnds(caller, formats, presentModes, created) ==
    IF caller = "initVulkan" /\ ~swapChainAdequate(formats, presentModes)
    THEN {"runtime_error"}
    ELSE createSwapChainEnds(formats, presentModes, created)

\* ------------------------------------------------------------ loadModel
\* element i (counted from 0) of a std::vector
At(vector, i) == vector[i + 1]

\* The Vertex loadModel builds for one tinyobj index.
MakeVertex(attrib, index) ==
    [pos |-> << At(attrib.vertices, 3 * index.vertex_index + 0),
                At(attrib.vertices, 3 * index.vertex_index + 1),
                At(attrib.vertices, 3 * index.vertex_index + 2) >>,
     texCoord |-> << At(attrib.texcoords, 2 * index.texcoord_index + 0),
                     1 - At(attrib.texcoords, 2 * index.texcoord_index + 1) >>,
     color |-> << 1, 1, 1 >>]

\* Mutant: every face vertex counts as new.
IsMissAlways(uniqueVertices, vertex) == TRUE

\* uniqueVertices.count(vertex) == 0
IsMiss(uniqueVertices, vertex) == vertex \notin DOMAIN uniqueVertices

\* Mutant: indices counted from 1.
NewIndexFromOne(vertices) == Len(vertices) + 1

\* static_cast<uint32_t>(vertices.size())
NewIndex(vertices) == Len(vertices)

RECURSIVE LoadModelFrom(_, _, _)
\* The loop of loadModel over the face vertices from the k-th on; st holds
\* the members vertices and indices and the local uniqueVertices.
LoadModelFrom(st, mesh, k) ==
    IF k > Len(mesh.indices) THEN st
    ELSE LET vertex == MakeVertex(mesh.attrib, mesh.indices[k])
             st1 == IF IsMiss(st.uniqueVertices, vertex)
                    THEN [vertices |-> Append(st.vertices, vertex),
                          indices |-> st.indices,
                          uniqueVertices |->
                              (vertex :> NewIndex(st.vertices)) @@ st.uniqueVertices]
                    ELSE st
             st2 == [st1 EXCEPT !.indices = Append(@, st1.uniqueVertices[vertex])]
         IN  LoadModelFrom(st2, mesh, k + 1)

\* loadModel() on an application whose members hold vertices and indices:
\* uniqueVertices starts empty, the members are appended to.
loadModel(vertices, indices, mesh) ==
    LET st == LoadModelFrom([vertices |-> vertices, indices |-> indices,
                             uniqueVertices |-> << >>], mesh, 1)
    IN  [vertices |-> st.vertices, indices |-> st.indices]

\* The meshes explored: two positions (equal or different), two texture
\* coordinates (equal or different), and every list of up to MaxFaceVertices
\* face vertices over them.
Meshes ==
    [attrib : [vertices : {<< 0, 0, 0, 1, 0, 0 >>, << 0, 0, 0, 0, 0, 0 >>},
               texcoords : {<< 0, 0, 1, 1 >>, << 0, 1, 0, 1 >>}],
     indices : SeqsUpTo([vertex_index : 0 .. 1, texcoord_index : 0 .. 1],
                        MaxFaceVertices)]

\* ------------------------------------------------- transitionImageLayout
ImageLayouts ==
    {"VK_IMAGE_LAYOUT_UNDEFINED", "VK_IMAGE_LAYOUT_GENERAL",
     "VK_IMAGE_LAYOUT_COLOR_ATTACHMENT_OPTIMAL",
     "VK_IMAGE_LAYOUT_TRANSFER_DST_OPTIMAL",
     "VK_IMAGE_LAYOUT_SHADER_READ_ONLY_OPTIMAL"}

\* Mutant: no else branch; every pair records a barrier.
transitionImageLayoutAnyPair(oldLayout, newLayout) ==
    [end |-> "returns",
     commands |-> << [oldLayout |-> oldLayout, newLayout |-> newLayout,
                      sourceStage |-> "VK_PIPELINE_STAGE_TOP_OF_PIPE_BIT",
                      destinationStage |-> "VK_PIPELINE_STAGE_TRANSFER_BIT"] >>,
     commandBuffer |-> "freed",
     submitted |-> TRUE]

\* transitionImageLayout(image, format, oldLayout, newLayout): how it ends,
\* the commands recorded into the one-shot command buffer, the state that
\* command buffer is left in, and whether it was submitted.
transitionImageLayout(oldLayout, newLayout) ==
    IF /\ oldLayout = "VK_IMAGE_LAYOUT_UNDEFINED"
       /\ newLayout = "VK_IMAGE_LAYOUT_TRANSFER_DST_OPTIMAL"
    THEN [end |-> "returns",
          commands |-> << [oldLayout |-> oldLayout, newLayout |-> newLayout,
                           sourceStage |-> "VK_PIPELINE_STAGE_TOP_OF_PIPE_BIT",
                           destinationStage |-> "VK_PIPELINE_STAGE_TRANSFER_BIT"] >>,
          commandBuffer |-> "freed",
          submitted |-> TRUE]
    ELSE IF /\ oldLayout = "VK_IMAGE_LAYOUT_TRANSFER_DST_OPTIMAL"
            /\ newLayout = "VK_IMAGE_LAYOUT_SHADER_READ_ONLY_OPTIMAL"
    THEN [end |-> "returns",
          commands |-> << [oldLayout |-> oldLayout, newLayout |-> newLayout,
                           sourceStage |-> "VK_PIPELINE_STAGE_TRANSFER_BIT",
                           destinationStage |-> "VK_PIPELINE_STAGE_FRAGMENT_SHADER_BIT"] >>,
          commandBuffer |-> "freed",
          submitted |-> TRUE]
    ELSE [end |-> "invalid_argument",
          commands |-> << >>,
          commandBuffer |-> "recording",
          submitted |-> FALSE]

\* ------------------------------------------- result codes of driver calls
DriverResults == {"VK_SUCCESS", "VK_ERROR"}

\* createBuffer when its three driver calls answer as given: vkCreateBuffer
\* and vkAllocateMemory are tested and throw; vkBindBufferMemory's result is
\* dropped.
createBuffer(results) ==
    IF results.vkCreateBuffer # "VK_SUCCESS" THEN "runtime_error"
    ELSE IF results.vkAllocateMemory # "VK_SUCCESS" THEN "runtime_error"
    ELSE "returns"

\* endSingleTimeCommands when its driver calls answer as given: no result is
\* looked at.
endSingleTimeCommands(results) == "returns"

SmallExtents == (0 .. MaxExtentDim) \X (0 .. MaxExtentDim)

\* Surface capabilities: the current extent is a size or the pair
\* (UINT32_MAX, UINT32_MAX), and minImageExtent <= maxImageExtent.
Capabilities ==
    {c \in [currentExtent : SmallExtents \cup {<< UINT32_MAX, UINT32_MAX >>},
            minImageExtent : SmallExtents, maxImageExtent : SmallExtents] :
        /\ c.minImageExtent[1] <= c.maxImageExtent[1]
        /\ c.minImageExtent[2] <= c.maxImageExtent[2]}

FnOps ==
    {"ImageCount", "chooseSwapSurfaceFormat", "chooseSwapPresentMode",
     "chooseSwapExtent", "createSwapChain", "loadModel", "loadModelTwice",
     "transitionImageLayout", "createBuffer", "endSingleTimeCommands"}

\* The arguments a function-level run draws for function op.
FnArguments(op) ==
    CASE op = "ImageCount" ->
           [minImageCount : 1 .. MaxImageCount, maxImageCount : 0 .. (MaxImageCount + 1)]
      [] op = "chooseSwapSurfaceFormat" ->
           SeqsUpTo(SurfaceFormats, MaxFormats) \ {<< >>}
      [] op = "chooseSwapPresentMode" ->
           SeqsUpTo(PresentModes, MaxPresentModes)
      [] op = "chooseSwapExtent" ->
           [capabilities : Capabilities, framebufferSize : SmallExtents]
      [] op = "createSwapChain" ->
           [caller : {"initVulkan", "recreateSwapChain"},
            formats : SeqsUpTo(SurfaceFormats, 1),
            presentModes : SeqsUpTo(PresentModes, 1),
            created : {"VK_SUCCESS", "VK_ERROR"}]
      [] op = "loadModel" -> Meshes
      [] op = "loadModelTwice" -> Meshes
      [] op = "transitionImageLayout" ->
           [oldLayout : ImageLayouts, newLayout : ImageLayouts]
      [] op = "createBuffer" ->
           [vkCreateBuffer : DriverResults, vkAllocateMemory : DriverResults,
            vkBindBufferMemory : DriverResults]
      [] op = "endSingleTimeCommands" ->
           [vkEndCommandBuffer : DriverResults, vkQueueSubmit : DriverResults,
            vkQueueWaitIdle : DriverResults]

FnInit ==
    /\ EngineInit
    /\ InputIdle
    /\ UploadIdle
    /\ fnOp \in FnOps
    /\ fnArgs \in FnArguments(fnOp)
    /\ fnRet = << >>

engineVars == << hostVars, windowVars, swapVars, gpuVars, uniformBuffersMapped,
                framebufferVars, objects, inputVars >>

FnCalled(op) == fnOp = op /\ Len(fnRet) = 1

CallImageCount ==
    /\ fnOp = "ImageCount"
    /\ Len(fnRet) = 0
    /\ fnRet' = << ImageCount(fnArgs.minImageCount, fnArgs.maxImageCount) >>
    /\ UNCHANGED << fnOp, fnArgs >>
    /\ UNCHANGED engineVars
    /\ UNCHANGED uploadVars

CallChooseSwapSurfaceFormat ==
    /\ fnOp = "chooseSwapSurfaceFormat"
    /\ Len(fnRet) = 0
    /\ fnRet' = << chooseSwapSurfaceFormat(fnArgs) >>
    /\ UNCHANGED << fnOp, fnArgs >>
    /\ UNCHANGED engineVars
    /\ UNCHANGED uploadVars

CallChooseSwapPresentMode ==
    /\ fnOp = "chooseSwapPresentMode"
    /\ Len(fnRet) = 0
    /\ fnRet' = << chooseSwapPresentMode(fnArgs) >>
    /\ UNCHANGED << fnOp, fnArgs >>
    /\ UNCHANGED engineVars
    /\ UNCHANGED uploadVars

CallChooseSwapExtent ==
    /\ fnOp = "chooseSwapExtent"
    /\ Len(fnRet) = 0
    /\ fnRet' = << chooseSwapExtent(fnArgs.capabilities, fnArgs.framebufferSize) >>
    /\ UNCHANGED << fnOp, fnArgs >>
    /\ UNCHANGED engineVars
    /\ UNCHANGED uploadVars

CallCreateSwapChain ==
    /\ fnOp = "createSwapChain"
    /\ Len(fnRet) = 0
    /\ \E end \in SwapChainCreateEnds(fnArgs.caller, fnArgs.formats,
                                      fnArgs.presentModes, fnArgs.created) :
          fnRet' = << end >>
    /\ UNCHANGED << fnOp, fnArgs >>
    /\ UNCHANGED engineVars
    /\ UNCHANGED uploadVars

\* loadModel() on a freshly constructed application (vertices and indices empty).
CallLoadModel ==
    /\ fnOp = "loadModel"
    /\ Len(fnRet) = 0
    /\ fnRet' = << loadModel(<< >>, << >>, fnArgs) >>
    /\ UNCHANGED << fnOp, fnArgs >>
    /\ UNCHANGED engineVars
    /\ UNCHANGED uploadVars

\* loadModel() twice on the same application and mesh: the members after the
\* first call and after the second.
CallLoadModelTwice ==
    /\ fnOp = "loadModelTwice"
    /\ Len(fnRet) = 0
    /\ LET first == loadModel(<< >>, << >>, fnArgs)
           second == loadModel(first.vertices, first.indices, fnArgs)
       IN  fnRet' = << [first |-> first, second |-> second] >>
    /\ UNCHANGED << fnOp, fnArgs >>
    /\ UNCHANGED engineVars
    /\ UNCHANGED uploadVars

CallTransitionImageLayout ==
    /\ fnOp = "transitionImageLayout"
    /\ Len(fnRet) = 0
    /\ fnRet' = << transitionImageLayout(fnArgs.oldLayout, fnArgs.newLayout) >>
    /\ UNCHANGED << fnOp, fnArgs >>
    /\ UNCHANGED engineVars
    /\ UNCHANGED uploadVars

CallCreateBuffer ==
    /\ fnOp = "createBuffer"
    /\ Len(fnRet) = 0
    /\ fnRet' = << createBuffer(fnArgs) >>
    /\ UNCHANGED << fnOp, fnArgs >>
    /\ UNCHANGED engineVars
    /\ UNCHANGED uploadVars

CallEndSingleTimeCommands ==
    /\ fnOp = "endSingleTimeCommands"
    /\ Len(fnRet) = 0
    /\ fnRet' = << endSingleTimeCommands(fnArgs) >>
    /\ UNCHANGED << fnOp, fnArgs >>
    /\ UNCHANGED engineVars
    /\ UNCHANGED uploadVars

FnNext ==
    \/ CallImageCount
    \/ CallChooseSwapSurfaceFormat
    \/ CallChooseSwapPresentMode
    \/ CallChooseSwapExtent
    \/ CallCreateSwapChain
    \/ CallLoadModel
    \/ CallLoadModelTwice
    \/ CallTransitionImageLayout
    \/ CallCreateBuffer
    \/ CallEndSingleTimeCommands

FnSpec == FnInit /\ [][FnNext]_vars

\* ---------------------------------------------------------- static upload
\* createVertexBuffer, createIndexBuffer and createTextureImage: the host list
\* goes into a host-visible staging buffer, one-shot command buffers copy it
\* into the device-local object, and the staging buffer is destroyed.  Sizes
\* are counted in elements (a Vertex, an index, a pixel).  Driver calls whose
\* result the code tests may fail and throw; the calls whose result it does
\* not look at are taken to succeed here.
Elements == {"a", "b"}

BigList == [k \in 1 .. BigUpload |-> IF k % 2 = 0 THEN "a" ELSE "b"]

UploadKinds == {"vertex", "index", "texture"}

\* The host lists explored: every short list, and one long vertex list; a
\* texture that stbi_load returned has at least one pixel.
UploadData(kind) ==
    CASE kind = "vertex" -> SeqsUpTo(Elements, MaxUpload) \cup {BigList}
      [] kind = "index" -> SeqsUpTo(Elements, MaxUpload)
      [] kind = "texture" -> SeqsUpTo(Elements, MaxUpload) \ {<< >>}

\* The one-shot command buffers an upload records and submits, in order.
UploadCommands(kind) ==
    IF kind = "texture"
    THEN << "transitionImageLayout", "copyBufferToImage", "transitionImageLayout" >>
    ELSE << "copyBuffer" >>

\* Mutant: createTextureImage with its two layout transitions exchanged.
UploadLayoutsExchanged(kind) ==
    IF kind = "texture"
    THEN << << "VK_IMAGE_LAYOUT_TRANSFER_DST_OPTIMAL", "VK_IMAGE_LAYOUT_SHADER_READ_ONLY_OPTIMAL" >>,
            << "VK_IMAGE_LAYOUT_TRANSFER_DST_OPTIMAL", "VK_IMAGE_LAYOUT_TRANSFER_DST_OPTIMAL" >>,
            << "VK_IMAGE_LAYOUT_UNDEFINED", "VK_IMAGE_LAYOUT_TRANSFER_DST_OPTIMAL" >> >>
    ELSE << << "none", "none" >> >>

\* The layouts each of those command buffers names: (oldLayout, newLayout) of
\* a transition, and the layout vkCmdCopyBufferToImage says the image is in.
UploadLayouts(kind) ==
    IF kind = "texture"
    THEN << << "VK_IMAGE_LAYOUT_UNDEFINED", "VK_IMAGE_LAYOUT_TRANSFER_DST_OPTIMAL" >>,
            << "VK_IMAGE_LAYOUT_TRANSFER_DST_OPTIMAL", "VK_IMAGE_LAYOUT_TRANSFER_DST_OPTIMAL" >>,
            << "VK_IMAGE_LAYOUT_TRANSFER_DST_OPTIMAL", "VK_IMAGE_LAYOUT_SHADER_READ_ONLY_OPTIMAL" >> >>
    ELSE << << "none", "none" >> >>

\* VkDeviceSize bufferSize = sizeof(vertices[0]) * vertices.size()
BufferSize(data) == Len(data)

\* A buffer of size elements that nothing has written yet.
Unwritten(size) == [k \in 1 .. size |-> "unwritten"]

\* memcpy(dst, src, size) and vkCmdCopyBuffer with a region of size elements
\* at offset 0 of both buffers.
CopyRegion(src, dst, size) ==
    [k \in DOMAIN dst |-> IF k <= size THEN src[k] ELSE dst[k]]

UploadInit ==
    /\ EngineInit
    /\ InputIdle
    /\ FnIdle
    /\ upPc = "start"
    /\ upKind \in UploadKinds
    /\ hostData \in UploadData(upKind)
    /\ stagingBuffer = NoBuffer
    /\ deviceBuffer = NoBuffer
    /\ oneShot = "none"
    /\ transferQueue = {}
    /\ upStage = 0
    /\ imageLayout = "none"

\* createBuffer(staging); vkMapMemory, memcpy, vkUnmapMemory; createBuffer /
\* createImage (device-local).  Each create may throw.  A size of zero is
\* outside what vkCreateBuffer, vkMapMemory and the copy region accept, so
\* what happens then is not defined: the driver may reject it (the create
\* throws), go on, or the process may crash.
createStagingAndDeviceBuffer ==
    /\ upPc = "start"
    /\ LET size == BufferSize(hostData)
       IN \/ /\ stagingBuffer' = [created |-> TRUE, alive |-> TRUE,
                                  data |-> CopyRegion(hostData, Unwritten(size), size)]
             /\ deviceBuffer' = [created |-> TRUE, alive |-> TRUE,
                                 data |-> Unwritten(size)]
             /\ imageLayout' = IF upKind = "texture"
                                THEN "VK_IMAGE_LAYOUT_UNDEFINED" ELSE "none"
             /\ upPc' = "begin"
          \/ /\ upPc' = "failed"
             /\ UNCHANGED << stagingBuffer, deviceBuffer, imageLayout >>
          \/ /\ size = 0
             /\ upPc' = "crashed"
             /\ UNCHANGED << stagingBuffer, deviceBuffer, imageLayout >>
    /\ UNCHANGED << upKind, hostData, oneShot, transferQueue, upStage >>
    /\ UNCHANGED engineVars
    /\ UNCHANGED fnVars

\* beginSingleTimeCommands, the recorded command, and endSingleTimeCommands up
\* to vkQueueSubmit(graphicsQueue, 1, &submitInfo, VK_NULL_HANDLE).
SingleTimeSubmit ==
    /\ upPc = "begin"
    /\ LET command == UploadCommands(upKind)[upStage + 1]
           layouts == UploadLayouts(upKind)[upStage + 1]
       IN  IF /\ command = "transitionImageLayout"
              /\ transitionImageLayout(layouts[1], layouts[2]).end # "returns"
           THEN /\ upPc' = "failed"
                /\ oneShot' = "recording"
                /\ UNCHANGED transferQueue
           ELSE /\ oneShot' = "pending"
                /\ transferQueue' = transferQueue \cup
                      {[command |-> command, size |-> BufferSize(hostData),
                        layouts |-> layouts]}
                /\ upPc' = "waitIdle"
    /\ UNCHANGED << upKind, hostData, stagingBuffer, deviceBuffer, upStage, imageLayout >>
    /\ UNCHANGED engineVars
    /\ UNCHANGED fnVars

\* Mutant: the queue-idle wait returns at once.
QueueIdleAtOnce == TRUE

\* vkQueueWaitIdle(graphicsQueue) returns once nothing is outstanding.
QueueIdle == transferQueue = {}

\* endSingleTimeCommands from vkQueueWaitIdle on: the wait, then
\* vkFreeCommandBuffers; the caller goes on to its next one-shot command
\* buffer or to the destruction of the staging buffer.
SingleTimeWaitAndFree ==
    /\ upPc = "waitIdle"
    /\ QueueIdle
    /\ oneShot' = "freed"
    /\ upStage' = upStage + 1
    /\ upPc' = IF upStage + 1 < Len(UploadCommands(upKind)) THEN "begin" ELSE "destroy"
    /\ UNCHANGED << upKind, hostData, stagingBuffer, deviceBuffer, transferQueue,
                    imageLayout >>
    /\ UNCHANGED engineVars
    /\ UNCHANGED fnVars

\* vkDestroyBuffer(device, stagingBuffer); vkFreeMemory(device, stagingBufferMemory)
destroyStagingBuffer ==
    /\ upPc = "destroy"
    /\ stagingBuffer' = [stagingBuffer EXCEPT !.alive = FALSE]
    /\ upPc' = "done"
    /\ UNCHANGED << upKind, hostData, deviceBuffer, oneShot, transferQueue, upStage,
                    imageLayout >>
    /\ UNCHANGED engineVars
    /\ UNCHANGED fnVars

\* Whether a command that names layout named may run on an image whose
\* layout is actual: the layouts agree, or the command gives up the contents.
LayoutMatches(named, actual) ==
    named = actual \/ named = "VK_IMAGE_LAYOUT_UNDEFINED" \/ named = "none"

\* The graphics queue executes one-shot submission c.  A copy reads the
\* staging buffer; reading a destroyed one is undefined (whatever is read, or
\* a crash).  A barrier moves the image to its new layout; a command that
\* names a layout the image is not in leaves the contents undefined.
TransferComplete(c) ==
    /\ c \in transferQueue
    /\ transferQueue' = transferQueue \ {c}
    /\ oneShot' = IF oneShot = "pending" THEN "executable" ELSE oneShot
    /\ imageLayout' = IF c.command = "transitionImageLayout"
                       THEN c.layouts[2] ELSE imageLayout
    /\ IF ~LayoutMatches(c.layouts[1], imageLayout)
       THEN /\ deviceBuffer' = [deviceBuffer EXCEPT !.data = Unwritten(c.size)]
            /\ UNCHANGED upPc
       ELSE IF c.command \in {"copyBuffer", "copyBufferToImage"}
       THEN IF stagingBuffer.alive
            THEN /\ deviceBuffer' = [deviceBuffer EXCEPT
                        !.data = CopyRegion(stagingBuffer.data, @, c.size)]
                 /\ UNCHANGED upPc
            ELSE \/ /\ deviceBuffer' = [deviceBuffer EXCEPT !.data = Unwritten(c.size)]
                    /\ UNCHANGED upPc
                 \/ /\ upPc' = "crashed"
                    /\ UNCHANGED deviceBuffer
       ELSE UNCHANGED << deviceBuffer, upPc >>
    /\ UNCHANGED << upKind, hostData, stagingBuffer, upStage >>
    /\ UNCHANGED engineVars
    /\ UNCHANGED fnVars

UploadNext ==
    \/ createStagingAndDeviceBuffer
    \/ SingleTimeSubmit
    \/ SingleTimeWaitAndFree
    \/ destroyStagingBuffer
    \/ \E c \in transferQueue : TransferComplete(c)

UploadSpec == UploadInit /\ [][UploadNext]_vars

\* ===================================================================
\* The window side of the tick loop: delivery of key and resize events in
\* glfwPollEvents and glfwWaitEvents, onKey, Camera::update, the branches of
\* drawFrame that call recreateSwapChain, and the minimized wait of
\* recreateSwapChain statement by statement.  The GPU work of drawFrame and
\* the rebuild itself are followed in Spec and are one step each here.
\* ===================================================================
Keys == {"GLFW_KEY_W", "GLFW_KEY_S", "GLFW_KEY_A", "GLFW_KEY_D", "GLFW_KEY_SPACE"}
KeyActions == {"GLFW_PRESS", "GLFW_RELEASE", "GLFW_REPEAT"}

\* enum class GameCommand
GameCommand ==
    [forward |-> 1, backward |-> 2, left |-> 4, right |-> 8]

\* The GameCommand bit onKey's switch gives a key (0: the default branch).
KeyBit(key) ==
    CASE key = "GLFW_KEY_A" -> GameCommand.left
      [] key = "GLFW_KEY_S" -> GameCommand.backward
      [] key = "GLFW_KEY_W" -> GameCommand.forward
      [] key = "GLFW_KEY_D" -> GameCommand.right
      [] OTHER -> 0

\* bit & word, for a one-bit value
BitAnd(bit, word) == IF bit > 0 /\ (word \div bit) % 2 = 1 THEN bit ELSE 0

\* word |= bit
BitOr(word, bit) == word + bit - BitAnd(bit, word)

\* word &= (k_complement_control_command ^ bit)
BitClear(word, bit) == word - BitAnd(bit, word)

\* The words an indeterminate unsigned int can be read as, as far as the four
\* command bits go (Camera::update looks at the two lowest only).
CommandWords == 0 .. 15

\* m_gameCommand after onKey(key, scancode, action, mods)
onKeyMask(mask, key, action) ==
    IF action = "GLFW_PRESS" THEN BitOr(mask, KeyBit(key))
    ELSE IF action = "GLFW_RELEASE" THEN BitClear(mask, KeyBit(key))
    ELSE mask

\* Camera::update's moveDirection, in units of m_forward.
MoveDirection(command) ==
    (IF BitAnd(GameCommand.forward, command) # 0 THEN 1 ELSE 0)
      - (IF BitAnd(GameCommand.backward, command) # 0 THEN 1 ELSE 0)

hasMoveCommand(command) ==
    BitAnd(GameCommand.forward, command) # 0 \/ BitAnd(GameCommand.backward, command) # 0

\* float speed = 2.0f
CameraSpeed == 2

\* The frame times explored (in time units; 0: two ticks within the clock's resolution).
DeltaTimes == {0, 1}

\* The positions at which the host runs the GLFW event loop.
EventLoopStates == {"pollEvents", "rcWaitEvents"}

\* Everything the window side leaves alone.
windowRest == << currentFrame, imageIndex, result, tickAcquire, tickSubmitted,
                 tickPresented, tickPresent, tickResized, submittedTicks, swapVars,
                 gpuVars, uniformBuffersMapped, framebufferVars, objects,
                 m_viewportWidth, m_viewportHeight, fnVars, uploadVars >>

\* A freshly constructed application entering mainLoop: Camera() leaves
\* m_command without a value, so its first read delivers any word.
WindowInit ==
    /\ EngineInit
    /\ FnIdle
    /\ UploadIdle
    /\ m_gameCommand = 0
    /\ m_command \in CommandWords
    /\ m_pos = 0
    /\ keysHeld = {}
    /\ rcCallback = FALSE
    /\ eventsArrived = FALSE

\* mainLoop / tickOneFrame up to glfwPollEvents.
tickOneFrameBegin ==
    /\ pc = "loop"
    /\ tick < MaxTicks
    /\ tick' = tick + 1
    /\ pc' = "pollEvents"
    /\ UNCHANGED << framebufferResized, windowExtent, width, height, rcReturn,
                    tickRebuilds, keyVars, rcCallback, eventsArrived >>
    /\ UNCHANGED windowRest

\* mainLoop: glfwWindowShouldClose; the GPU is idle here, so cleanup follows.
windowShouldClose ==
    /\ pc = "loop"
    /\ pc' = "done"
    /\ UNCHANGED << framebufferResized, windowExtent, width, height, rcReturn, tick,
                    tickRebuilds, keyVars, rcCallback, eventsArrived >>
    /\ UNCHANGED windowRest

\* keyCallback / onKey, delivered by the event loop.
onKey(key, action) ==
    /\ pc \in EventLoopStates
    /\ m_gameCommand' = onKeyMask(m_gameCommand, key, action)
    /\ m_command' = m_gameCommand'
    /\ keysHeld' = IF action = "GLFW_PRESS" THEN keysHeld \cup {key}
                   ELSE IF action = "GLFW_RELEASE" THEN keysHeld \ {key}
                   ELSE keysHeld
    /\ eventsArrived' = (pc = "rcWaitEvents")
    /\ UNCHANGED << pc, framebufferResized, windowExtent, width, height, rcReturn,
                    tick, tickRebuilds, m_pos, rcCallback >>
    /\ UNCHANGED windowRest

\* framebufferResizeCallback, delivered by the event loop.
onFramebufferResize(e) ==
    /\ pc \in EventLoopStates
    /\ framebufferResizeCallback(e)
    /\ rcCallback' = (rcCallback \/ pc = "rcWaitEvents")
    /\ eventsArrived' = (pc = "rcWaitEvents")
    /\ UNCHANGED << pc, width, height, rcReturn, tick, tickRebuilds, keyVars >>
    /\ UNCHANGED windowRest

\* glfwPollEvents returns (with or without events processed).
glfwPollEventsReturn ==
    /\ pc = "pollEvents"
    /\ pc' = "cameraUpdate"
    /\ UNCHANGED << framebufferResized, windowExtent, width, height, rcReturn, tick,
                    tickRebuilds, keyVars, rcCallback, eventsArrived >>
    /\ UNCHANGED windowRest

\* m_camera.update(deltaTime)
CameraUpdate(deltaTime) ==
    /\ pc = "cameraUpdate"
    /\ m_pos' = IF hasMoveCommand(m_command)
                THEN m_pos + MoveDirection(m_command) * deltaTime * CameraSpeed
                ELSE m_pos
    /\ pc' = "drawFrame"
    /\ UNCHANGED << framebufferResized, windowExtent, width, height, rcReturn, tick,
                    tickRebuilds, m_gameCommand, m_command, keysHeld, rcCallback,
                    eventsArrived >>
    /\ UNCHANGED windowRest

\* drawFrame up to the branch on vkAcquireNextImageKHR's result.
drawFrameAcquire ==
    /\ pc = "drawFrame"
    /\ \E r \in AcquireResults :
          LET branch == AcquireBranch(r)
          IN  /\ pc' = IF branch = "recreate" THEN "rcEnter"
                       ELSE IF branch = "failed" THEN "failed"
                       ELSE "presentBranch"
              /\ tickRebuilds' = IF branch = "recreate" THEN tickRebuilds + 1
                                 ELSE tickRebuilds
    /\ rcReturn' = "return"
    /\ UNCHANGED << framebufferResized, windowExtent, width, height, tick, keyVars,
                    rcCallback, eventsArrived >>
    /\ UNCHANGED windowRest

\* drawFrame from the uniform update to the branch on vkQueuePresentKHR's
\* result (vkQueueSubmit may throw on the way).
drawFramePresent ==
    /\ pc = "presentBranch"
    /\ \/ /\ pc' = "failed"
          /\ UNCHANGED << framebufferResized, rcReturn, tickRebuilds >>
       \/ \E r \in PresentResults :
             IF PresentNeedsRecreate(r)
             THEN /\ framebufferResized' = FALSE
                  /\ pc' = "rcEnter"
                  /\ rcReturn' = "advance"
                  /\ tickRebuilds' = tickRebuilds + 1
             ELSE /\ pc' = IF r # "VK_SUCCESS" THEN "failed" ELSE "advance"
                  /\ UNCHANGED << framebufferResized, rcReturn, tickRebuilds >>
    /\ UNCHANGED << windowExtent, width, height, tick, keyVars, rcCallback,
                    eventsArrived >>
    /\ UNCHANGED windowRest

\* recreateSwapChain: int width = 0, height = 0; glfwGetFramebufferSize.
rcGetFramebufferSize ==
    /\ pc = "rcEnter"
    /\ width' = windowExtent[1]
    /\ height' = windowExtent[2]
    /\ rcCallback' = FALSE
    /\ pc' = "rcTest"
    /\ UNCHANGED << framebufferResized, windowExtent, rcReturn, tick, tickRebuilds,
                    keyVars, eventsArrived >>
    /\ UNCHANGED windowRest

\* while (width == 0 || height == 0)
rcLoopTest ==
    /\ pc = "rcTest"
    /\ pc' = IF width = 0 \/ height = 0 THEN "rcLoopGetSize" ELSE "rcRebuild"
    /\ UNCHANGED << framebufferResized, windowExtent, width, height, rcReturn, tick,
                    tickRebuilds, keyVars, rcCallback, eventsArrived >>
    /\ UNCHANGED windowRest

\* Loop body, first statement: glfwGetFramebufferSize; then glfwWaitEvents is entered.
rcLoopGetFramebufferSize ==
    /\ pc = "rcLoopGetSize"
    /\ width' = windowExtent[1]
    /\ height' = windowExtent[2]
    /\ eventsArrived' = FALSE
    /\ pc' = "rcWaitEvents"
    /\ UNCHANGED << framebufferResized, windowExtent, rcReturn, tick, tickRebuilds,
                    keyVars, rcCallback >>
    /\ UNCHANGED windowRest

\* glfwWaitEvents returns once at least one event was processed.
glfwWaitEventsReturn ==
    /\ pc = "rcWaitEvents"
    /\ eventsArrived
    /\ eventsArrived' = FALSE
    /\ pc' = "rcTest"
    /\ UNCHANGED << framebufferResized, windowExtent, width, height, rcReturn, tick,
                    tickRebuilds, keyVars, rcCallback >>
    /\ UNCHANGED windowRest

\* vkDeviceWaitIdle; cleanupSwapChain; the four create calls (which may throw);
\* recreateSwapChain returns into drawFrame.
rcRebuild ==
    /\ pc = "rcRebuild"
    /\ \/ pc' = rcReturn
       \/ pc' = "failed"
    /\ width' = 0
    /\ height' = 0
    /\ UNCHANGED << framebufferResized, windowExtent, rcReturn, tick, tickRebuilds,
                    keyVars, rcCallback, eventsArrived >>
    /\ UNCHANGED windowRest

\* drawFrame returns: after the slot advance, or from the early return.
drawFrameEnd ==
    /\ pc \in {"return", "advance"}
    /\ pc' = "loop"
    /\ rcReturn' = "loop"
    /\ tickRebuilds' = 0
    /\ rcCallback' = FALSE
    /\ UNCHANGED << framebufferResized, windowExtent, width, height, tick, keyVars,
                    eventsArrived >>
    /\ UNCHANGED windowRest

WindowNext ==
    \/ tickOneFrameBegin
    \/ windowShouldClose
    \/ \E key \in Keys : \E action \in KeyActions : onKey(key, action)
    \/ \E e \in Extents : onFramebufferResize(e)
    \/ glfwPollEventsReturn
    \/ \E deltaTime \in DeltaTimes : CameraUpdate(deltaTime)
    \/ drawFrameAcquire
    \/ drawFramePresent
    \/ rcGetFramebufferSize
    \/ rcLoopTest
    \/ rcLoopGetFramebufferSize
    \/ glfwWaitEventsReturn
    \/ rcRebuild
    \/ drawFrameEnd

WindowSpec == WindowInit /\ [][WindowNext]_vars

\* ------------------------------------------------------------ properties
\* main(): what the process returns; a std::exception that reached main is
\* printed and answered with EXIT_FAILURE.
ExitStatus ==
    IF pc = "failed" THEN "EXIT_FAILURE"
    ELSE IF pc = "done" THEN "EXIT_SUCCESS"
    ELSE "running"

RecreateStates == {"recreate", "rcLoop", "rcCleanup", "rcCreate"}
Usable == {"VK_SUCCESS", "VK_SUBOPTIMAL_KHR"}

\* C1: drawFrame never resets or re-records a slot's command buffer while a
\* graphics submission using that command buffer is outstanding: when the host
\* is about to reset the command buffer, or has just re-recorded it, the
\* slot has no outstanding submission and its command buffer is not pending.
C1_NoResetWhilePending ==
    pc \in {"record", "submit"} =>
        /\ ~SlotBusy(currentFrame)
        /\ commandBuffers[currentFrame] # "pending"

C1_Witness ==
    /\ pc = "submit"
    /\ tick = 3
    /\ {1, 2} \subseteq submittedTicks
    /\ commandBuffers[currentFrame] = "executable"

\* C2: at most one graphics submission is outstanding per frame slot, so at
\* most MAX_FRAMES_IN_FLIGHT submissions are outstanding in total.
C2_OneOutstandingPerSlot ==
    /\ \A i \in Slots : Cardinality({s \in graphicsQueue : s.slot = i}) <= 1
    /\ Cardinality(graphicsQueue) <= MAX_FRAMES_IN_FLIGHT

C2_Witness == Cardinality(graphicsQueue) = MAX_FRAMES_IN_FLIGHT

\* C3: a tick whose acquire returned out-of-date calls recreateSwapChain once,
\* submits nothing, presents nothing, and does not go back to drawing: it is
\* inside the rebuild, has returned with the swapchain rebuilt, or has failed.
C3_OutOfDateSkipsDraw ==
    tickAcquire = "VK_ERROR_OUT_OF_DATE_KHR" =>
        /\ tickRebuilds = 1
        /\ ~tickSubmitted
        /\ ~tickPresented
        /\ tickPresent = "none"
        /\ tick \notin submittedTicks
        /\ pc \in RecreateStates \cup {"return", "failed"}
        /\ (pc = "return" => swapChainAlive)

C3_Witness ==
    /\ pc = "return"
    /\ tickAcquire = "VK_ERROR_OUT_OF_DATE_KHR"
    /\ swapChainAlive

\* C4: a fence goes from signaled to unsignaled only for the current slot in a
\* tick whose acquire returned success or suboptimal; during a tick abandoned
\* at acquire the slot's fence stays signaled.
C4_ResetOnlyAfterAcquire ==
    /\ [][\A i \in Slots :
            (inFlightFences[i] /\ ~inFlightFences'[i]) =>
                (i = currentFrame /\ tickAcquire \in Usable)]_vars
    /\ [](tickAcquire = "VK_ERROR_OUT_OF_DATE_KHR" => inFlightFences[currentFrame])

C4_Witness ==
    /\ pc = "return"
    /\ tickAcquire = "VK_ERROR_OUT_OF_DATE_KHR"
    /\ submittedTicks # {}
    /\ inFlightFences[currentFrame]

FenceWaitTerminates == (pc = "waitFence") ~> (pc = "acquire")

\* C6: with two slots, once the first and second drawFrame calls have
\* submitted, the third call (slot 0 again) is past its fence wait only when
\* the first call's submission is no longer outstanding.
C6_ThirdTickWaitsForFirst ==
    (tick = 3 /\ {1, 2} \subseteq submittedTicks /\ pc # "waitFence") =>
        \A s \in graphicsQueue : s.tick # 1

C6_Witness ==
    /\ tick = 3
    /\ {1, 2} \subseteq submittedTicks
    /\ pc = "waitFence"
    /\ currentFrame = 0
    /\ ~FenceSignaled(0)
    /\ \E s \in graphicsQueue : s.tick = 1

\* C7: per slot, between two resets of the fence there is exactly one graphics
\* submission naming it and at most one signal, the signal of that submission:
\* a fence with no submission since its reset is either still in its created
\* (signaled) state or belongs to the tick that is between reset and submit.
C7_OneSignalPerCycle ==
    \A i \in Slots :
        /\ fenceSubmits[i] <= 1
        /\ fenceSignals[i] <= fenceSubmits[i]
        /\ (fenceSubmits[i] = 1 => (FenceSignaled(i) <=> fenceSignals[i] = 1))
        /\ (fenceSubmits[i] = 0 =>
               \/ FenceSignaled(i)
               \/ (i = currentFrame /\ pc \in {"record", "submit", "failed"}))

C7_Witness ==
    /\ Cardinality(submittedTicks) = 3
    /\ \E i \in Slots : fenceSubmits[i] = 1 /\ fenceSignals[i] = 1

\* C8: a rebuild in a tick whose acquire was usable starts only after that
\* tick submitted and its present call returned; a suboptimal present means
\* the frame was submitted and presented and recreateSwapChain is called once,
\* after the present.
C8_RebuildAfterPresent ==
    /\ (pc \in RecreateStates /\ tickAcquire \in Usable) =>
           (tickSubmitted /\ tickPresent # "none" /\ rcReturn = "advance")
    /\ (tickAcquire \in Usable /\ tickPresent = "none") =>
           (tickRebuilds = 0 /\ swapChainAlive)
    /\ tickPresent = "VK_SUBOPTIMAL_KHR" =>
           /\ tickSubmitted
           /\ tickPresented
           /\ tickRebuilds = 1
           /\ pc \in RecreateStates \cup {"advance", "failed"}

C8_Witness ==
    /\ tickPresent = "VK_SUBOPTIMAL_KHR"
    /\ pc = "advance"
    /\ tickRebuilds = 1
    /\ swapChainAlive

C10_CreateOnlyWhenNonzero ==
    pc \in {"rcCleanup", "rcCreate"} => ~IsZeroExtent(windowExtent)

\* C11: the host writes slot i's mapped uniform buffer only after the fence
\* wait of the same tick returned and before that tick's submission, and never
\* overwrites a buffer an outstanding submission reads: every outstanding
\* submission's uniform buffer still holds what its own tick wrote; when the
\* write is about to happen the slot has no outstanding submission; and from
\* the write up to vkQueueSubmit the buffer holds the running tick's data and
\* the tick has not submitted yet.
C11_UniformWriteBetweenWaitAndSubmit ==
    /\ \A s \in graphicsQueue : uniformBuffersMapped[s.slot] = s.tick
    /\ pc = "update" => ~SlotBusy(currentFrame) /\ tick \notin submittedTicks
    /\ pc \in {"resetFence", "record", "submit"} =>
           /\ uniformBuffersMapped[currentFrame] = tick
           /\ tick \notin submittedTicks

C11_Witness ==
    /\ pc = "resetFence"
    /\ tick = 3
    /\ currentFrame = 0
    /\ uniformBuffersMapped = [i \in Slots |-> IF i = 0 THEN 3 ELSE 2]
    /\ \E s \in graphicsQueue : s.slot = 1

\* The steps of one drawFrame call, in the order of the code.
DrawFrameOrder ==
    << "waitFence", "acquire", "update", "resetFence", "record", "submit",
       "present", "advance" >>

DrawFrameSteps == {DrawFrameOrder[k] : k \in DOMAIN DrawFrameOrder}

Position(p) == CHOOSE k \in DOMAIN DrawFrameOrder : DrawFrameOrder[k] = p

\* C12: within one tick the steps run strictly in the order fence wait,
\* acquire, uniform update, (fence reset,) command recording, submit, present,
\* slot advance, each after the previous one returned and none twice: the host
\* moves from a step only to the next step of the order, to a swapchain
\* rebuild, or to the fatal error; the first step is entered only from the
\* loop and starts a new tick; a rebuild hands control back only to the slot
\* advance (after present) or to the return of the abandoned tick.
C12_StepsInOrder ==
    [][ /\ (pc \in DrawFrameSteps /\ pc' \in DrawFrameSteps /\ pc' # pc) =>
               Position(pc') = Position(pc) + 1
        /\ (pc' = "waitFence" /\ pc # "waitFence") =>
               (pc = "loop" /\ tick' = tick + 1)
        /\ tick' # tick => pc = "loop"
        /\ (pc \in RecreateStates /\ pc' \in DrawFrameSteps) =>
               (pc' = "advance" /\ tickPresent # "none")
        /\ (pc' \in RecreateStates /\ pc \notin RecreateStates) =>
               pc \in {"acquire", "present"}
      ]_vars

C12_Witness ==
    /\ pc = "advance"
    /\ tick = 2
    /\ tickAcquire = "VK_SUCCESS"
    /\ tickSubmitted
    /\ tickPresent = "VK_SUCCESS"
    /\ uniformBuffersMapped[currentFrame] = 2

\* The host is inside a drawFrame call.
InDrawFrame == pc \notin {"loop", "exitWait", "done"}

\* The drawFrame calls that ran to the slot advance at their end.
CompletedTicks ==
    IF InDrawFrame THEN submittedTicks \ {tick} ELSE submittedTicks

\* C13 as stated: the t-th drawFrame call (t from 0) runs on slot t mod N.
C13_Original ==
    InDrawFrame => currentFrame = (tick - 1) % MAX_FRAMES_IN_FLIGHT

\* C13 (amended): the slot a drawFrame call runs on is the number of earlier
\* calls that ran through present to the slot advance, mod N; a call abandoned
\* at acquire does not count.
C13_SlotCountsCompletedTicks ==
    currentFrame = Cardinality(CompletedTicks) % MAX_FRAMES_IN_FLIGHT

C13_Witness ==
    /\ pc = "waitFence"
    /\ tick = 3
    /\ currentFrame = 1
    /\ Cardinality(submittedTicks) = 1

\* C14: for every submitted frame the GPU's color writes start only after the
\* tick's image-acquired semaphore is signaled, and the present of its image
\* starts only after the tick's rendering signaled render-finished: a
\* submission leaves the graphics queue only with the slot's image-acquired
\* semaphore signaled, and a present request leaves the present queue only
\* when the submission of its own tick is no longer outstanding.
C14_SemaphoreOrder ==
    [][ /\ \A s \in graphicsQueue \ graphicsQueue' :
               imageAvailableSemaphores[s.slot] = "signaled"
        /\ \A p \in presentQueue \ presentQueue' :
               ~ \E s \in graphicsQueue : s.tick = p.tick
      ]_vars

\* The logical frames (ticks) with a pending use of slot i's command buffer,
\* fence, uniform buffer and descriptor set.
CommandBufferUsers(i) ==
    {s.tick : s \in {q \in graphicsQueue : q.slot = i}}
       \cup (IF currentFrame = i /\ pc \in {"update", "resetFence", "record", "submit"}
             THEN {tick} ELSE {})

\* The logical frames with a pending signal of or wait on slot i's
\* render-finished semaphore.
RenderFinishedUsers(i) ==
    {q.tick : q \in {r \in graphicsQueue \cup presentQueue : r.slot = i}}

\* C15: a tick on slot i uses only slot i's resources, so no per-slot
\* resource is used by two logical frames at once.
C15_SlotExclusive ==
    \A i \in Slots :
        /\ Cardinality(CommandBufferUsers(i)) <= 1
        /\ Cardinality(RenderFinishedUsers(i)) <= 1

\* The frame-effect half of C15, which holds: a step of the host leaves the
\* per-slot objects of every slot but currentFrame as they are.
SlotFrameEffect ==
    [][ hostVars' # hostVars =>
          \A i \in Slots \ {currentFrame} :
              /\ commandBuffers'[i] = commandBuffers[i]
              /\ inFlightFences'[i] = inFlightFences[i]
              /\ imageAvailableSemaphores'[i] = imageAvailableSemaphores[i]
              /\ renderFinishedSemaphores'[i] = renderFinishedSemaphores[i]
              /\ uniformBuffersMapped'[i] = uniformBuffersMapped[i]
      ]_vars

Min(a, b) == IF a <= b THEN a ELSE b

\* C16: the image count requested is min(minImageCount + 1, maxImageCount)
\* when maxImageCount > 0, and minImageCount + 1 when maxImageCount = 0.
C16_ImageCount ==
    FnCalled("ImageCount") =>
        fnRet[1] = IF fnArgs.maxImageCount > 0
                   THEN Min(fnArgs.minImageCount + 1, fnArgs.maxImageCount)
                   ELSE fnArgs.minImageCount + 1

C16_Witness ==
    /\ FnCalled("ImageCount")
    /\ fnArgs = [minImageCount |-> 3, maxImageCount |-> 3]
    /\ fnRet = << 3 >>

\* The places of the preferred format in a list of reported formats.
PreferredAt(availableFormats) ==
    {k \in DOMAIN availableFormats : availableFormats[k] = PreferredFormat}

\* C17: for a non-empty list chooseSwapSurfaceFormat returns the first
\* reported format that is B8G8R8A8_SRGB with the SRGB_NONLINEAR color space
\* if there is one, and the first reported format otherwise.
C17_SurfaceFormat ==
    FnCalled("chooseSwapSurfaceFormat") =>
        IF PreferredAt(fnArgs) # {}
        THEN \E k \in PreferredAt(fnArgs) :
                /\ \A j \in PreferredAt(fnArgs) : k <= j
                /\ fnRet[1] = fnArgs[k]
        ELSE fnRet[1] = fnArgs[1]

C17_Witness ==
    /\ FnCalled("chooseSwapSurfaceFormat")
    /\ Len(fnArgs) = 3
    /\ fnArgs[1].format = "VK_FORMAT_B8G8R8A8_SRGB"
    /\ fnArgs[1].colorSpace # "VK_COLOR_SPACE_SRGB_NONLINEAR_KHR"
    /\ fnArgs[3] = PreferredFormat
    /\ fnArgs[2] # PreferredFormat
    /\ fnRet = << PreferredFormat >>

\* C18: chooseSwapPresentMode returns mailbox exactly when mailbox is among
\* the reported modes, and FIFO in every other case.
C18_PresentMode ==
    FnCalled("chooseSwapPresentMode") =>
        /\ fnRet[1] = "VK_PRESENT_MODE_MAILBOX_KHR" <=>
              \E k \in DOMAIN fnArgs : fnArgs[k] = "VK_PRESENT_MODE_MAILBOX_KHR"
        /\ fnRet[1] # "VK_PRESENT_MODE_MAILBOX_KHR" => fnRet[1] = "VK_PRESENT_MODE_FIFO_KHR"

C18_Witness ==
    /\ FnCalled("chooseSwapPresentMode")
    /\ fnArgs = << "VK_PRESENT_MODE_IMMEDIATE_KHR", "VK_PRESENT_MODE_FIFO_KHR",
                   "VK_PRESENT_MODE_MAILBOX_KHR" >>
    /\ fnRet = << "VK_PRESENT_MODE_MAILBOX_KHR" >>

\* v moved into [lo, hi] by the shortest way.
Nearest(v, lo, hi, r) ==
    /\ lo <= r /\ r <= hi
    /\ (lo <= v /\ v <= hi) => r = v
    /\ v < lo => r = lo
    /\ v > hi => r = hi

\* C19: chooseSwapExtent returns the surface's current extent when that is a
\* size; when it is the sentinel it returns the window's framebuffer size with
\* width and height each clamped into [minImageExtent, maxImageExtent], so the
\* result lies within those bounds.
C19_Extent ==
    FnCalled("chooseSwapExtent") =>
        LET c == fnArgs.capabilities
            w == fnArgs.framebufferSize
        IN  IF c.currentExtent = << UINT32_MAX, UINT32_MAX >>
            THEN /\ Nearest(w[1], c.minImageExtent[1], c.maxImageExtent[1], fnRet[1][1])
                 /\ Nearest(w[2], c.minImageExtent[2], c.maxImageExtent[2], fnRet[1][2])
            ELSE fnRet[1] = c.currentExtent

C19_Witness ==
    /\ FnCalled("chooseSwapExtent")
    /\ fnArgs.capabilities.currentExtent = << UINT32_MAX, UINT32_MAX >>
    /\ fnArgs.capabilities.minImageExtent = << 1, 1 >>
    /\ fnArgs.capabilities.maxImageExtent = << 1, 2 >>
    /\ fnArgs.framebufferSize = << 2, 0 >>
    /\ fnRet = << << 1, 1 >> >>

\* C20: every swapchain create, at startup and on recreate, ends in a fatal
\* error surfaced to the caller when the surface reports no format or no
\* present mode or when vkCreateSwapchainKHR fails; it never goes on to build
\* image views from such a state.
C20_CreateFailsFatally ==
    FnCalled("createSwapChain") =>
        ((\/ fnArgs.formats = << >>
          \/ fnArgs.presentModes = << >>
          \/ fnArgs.created # "VK_SUCCESS") => fnRet[1] = "runtime_error")

\* C21: in every static upload the staging buffer and the one-shot command
\* buffer are freed only after the one-shot submission was submitted and the
\* queue went idle: while a one-shot submission is outstanding the staging
\* buffer is alive and the command buffer is not freed; the host is at the
\* free of the command buffer only with the queue idle; and a destroyed
\* staging buffer means every one-shot submission of the upload was submitted
\* and has finished.
C21_FreeAfterQueueIdle ==
    /\ \A c \in transferQueue : stagingBuffer.alive /\ oneShot = "pending"
    /\ upPc \in {"begin", "destroy", "done"} => transferQueue = {}
    /\ (oneShot = "freed" /\ upPc # "crashed") => upStage >= 1
    /\ (stagingBuffer.created /\ ~stagingBuffer.alive) =>
           /\ upPc = "done"
           /\ upStage = Len(UploadCommands(upKind))

C21_Witness ==
    /\ upPc = "done"
    /\ upKind = "texture"
    /\ stagingBuffer.created /\ ~stagingBuffer.alive
    /\ oneShot = "freed"
    /\ upStage = 3
    /\ deviceBuffer.data = hostData

\* C22: for a vertex list of N entries, N in {0, 1, 1000}, the upload leaves
\* the device-local vertex buffer holding exactly the host vertex list.
C22_RoundTrip ==
    (upKind = "vertex" /\ Len(hostData) \in {0, 1, BigUpload}) =>
        /\ upPc # "crashed"
        /\ upPc = "done" => (deviceBuffer.alive /\ deviceBuffer.data = hostData)

\* The part of C22 that holds: a non-empty list of any kind arrives unchanged.
UploadRoundTripNonEmpty ==
    (Len(hostData) > 0) =>
        /\ upPc # "crashed"
        /\ upPc = "done" => (deviceBuffer.alive /\ deviceBuffer.data = hostData)

\* C23: after loadModel's dedup pass the vertex list holds no two equal
\* (position, color, texture-coordinate) tuples, and the index list has as
\* many entries as the mesh has face vertices.
C23_NoDuplicateVertices ==
    FnCalled("loadModel") =>
        /\ \A i, j \in DOMAIN fnRet[1].vertices :
               fnRet[1].vertices[i] = fnRet[1].vertices[j] => i = j
        /\ Len(fnRet[1].indices) = Len(fnArgs.indices)

C23_Witness ==
    /\ FnCalled("loadModel")
    /\ Len(fnArgs.indices) = 3
    /\ fnArgs.indices[1] # fnArgs.indices[3]
    /\ Len(fnRet[1].vertices) = 1
    /\ Len(fnRet[1].indices) = 3

\* C24: the index list keeps the face-traversal order: the vertex at
\* position indices[k] of the vertex list is the k-th face vertex of the
\* mesh, and every index is smaller than the length of the vertex list.
C24_IndicesFollowFaces ==
    FnCalled("loadModel") =>
        \A k \in DOMAIN fnArgs.indices :
            /\ fnRet[1].indices[k] < Len(fnRet[1].vertices)
            /\ At(fnRet[1].vertices, fnRet[1].indices[k]) =
                   MakeVertex(fnArgs.attrib, fnArgs.indices[k])

C24_Witness ==
    /\ FnCalled("loadModel")
    /\ fnRet[1].indices = << 0, 1, 0 >>
    /\ Len(fnRet[1].vertices) = 2
    /\ fnRet[1].vertices[2].pos = << 1, 0, 0 >>

\* C25: the dedup pass is idempotent: running loadModel twice on the same
\* mesh gives vertex lists of equal length and identical index lists.
C25_DedupIdempotent ==
    FnCalled("loadModelTwice") =>
        /\ Len(fnRet[1].second.vertices) = Len(fnRet[1].first.vertices)
        /\ fnRet[1].second.indices = fnRet[1].first.indices

SupportedTransitions ==
    {<< "VK_IMAGE_LAYOUT_UNDEFINED", "VK_IMAGE_LAYOUT_TRANSFER_DST_OPTIMAL" >>,
     << "VK_IMAGE_LAYOUT_TRANSFER_DST_OPTIMAL", "VK_IMAGE_LAYOUT_SHADER_READ_ONLY_OPTIMAL" >>}

\* C26: transitionImageLayout ends in a fatal error for every layout pair but
\* (undefined, transfer-destination) and (transfer-destination,
\* shader-read-only), and records a barrier for those two pairs only.
C26_TransitionPairs ==
    FnCalled("transitionImageLayout") =>
        IF << fnArgs.oldLayout, fnArgs.newLayout >> \in SupportedTransitions
        THEN /\ fnRet[1].end = "returns"
             /\ Len(fnRet[1].commands) = 1
             /\ fnRet[1].commands[1].oldLayout = fnArgs.oldLayout
             /\ fnRet[1].commands[1].newLayout = fnArgs.newLayout
        ELSE /\ fnRet[1].end = "invalid_argument"
             /\ fnRet[1].commands = << >>

C26_Witness ==
    /\ FnCalled("transitionImageLayout")
    /\ fnArgs.oldLayout = "VK_IMAGE_LAYOUT_TRANSFER_DST_OPTIMAL"
    /\ fnArgs.newLayout = "VK_IMAGE_LAYOUT_UNDEFINED"
    /\ fnRet[1].end = "invalid_argument"

\* C27: on normal shutdown cleanup destroys resources only after the
\* device-idle wait: once the application has cleaned up, no graphics
\* submission and no present request is outstanding and no command buffer is
\* pending.
C27_ShutdownAfterIdle ==
    pc = "done" =>
        /\ ~swapChainAlive
        /\ graphicsQueue = {}
        /\ presentQueue = {}
        /\ \A i \in Slots : commandBuffers[i] # "pending"
        /\ ExitStatus = "EXIT_SUCCESS"

C27_Witness ==
    /\ pc = "done"
    /\ ~swapChainAlive
    /\ submittedTicks = {1, 2, 3}

C30_RebuildAfterIdle ==
    /\ pc \in {"recreate", "rcLoop", "rcCleanup"} =>
           swapChainAlive /\ swapChainImages # << >>
    /\ pc \in {"rcCleanup", "rcCreate"} =>
           /\ graphicsQueue = {}
           /\ presentQueue = {}
           /\ \A i \in Slots : commandBuffers[i] # "pending"
    /\ pc = "rcCreate" => ~swapChainAlive /\ swapChainImages = << >>
    /\ \A s \in graphicsQueue \cup presentQueue :
           swapChainAlive /\ s.image \in DOMAIN swapChainImages

C30_Witness ==
    /\ pc = "rcCreate"
    /\ tickSubmitted
    /\ tick = 2
    /\ submittedTicks = {1, 2}
    /\ ~swapChainAlive

\* C29: every driver call's result is tested: whenever one of the calls
\* createBuffer or endSingleTimeCommands makes answers with a failure, the
\* routine ends in the fatal error.
C29_EveryResultChecked ==
    /\ FnCalled("createBuffer") =>
           ((\/ fnArgs.vkCreateBuffer # "VK_SUCCESS"
             \/ fnArgs.vkAllocateMemory # "VK_SUCCESS"
             \/ fnArgs.vkBindBufferMemory # "VK_SUCCESS")
                => fnRet[1] = "runtime_error")
    /\ FnCalled("endSingleTimeCommands") =>
           ((\/ fnArgs.vkEndCommandBuffer # "VK_SUCCESS"
             \/ fnArgs.vkQueueSubmit # "VK_SUCCESS"
             \/ fnArgs.vkQueueWaitIdle # "VK_SUCCESS")
                => fnRet[1] = "runtime_error")

\* The part of C29 that holds: the two results createBuffer does test.
CreateBufferTestedResults ==
    FnCalled("createBuffer") =>
        ((fnArgs.vkCreateBuffer # "VK_SUCCESS" \/ fnArgs.vkAllocateMemory # "VK_SUCCESS")
             <=> fnRet[1] = "runtime_error")

\* A step of the host inside recreateSwapChain (the GPU and the presentation
\* engine go on working while the host is in there).
RecreateStep ==
    /\ pc \in RecreateStates
    /\ \/ pc' # pc
       \/ width' # width
       \/ height' # height
       \/ windowExtent' # windowExtent
       \/ framebufferResized' # framebufferResized

\* C31: recreateSwapChain leaves everything that does not depend on the
\* swapchain as it is: while the host is inside it no persistent object
\* (render pass, pipeline and layout, command buffers, semaphores, fences,
\* descriptor sets, uniform buffers, vertex/index/texture resources) is
\* destroyed or created, the slot index stays, and the host's own steps leave
\* the per-slot synchronization state and the uniform buffers untouched.
C31_RecreateLeavesRest ==
    [][ /\ pc \in RecreateStates => currentFrame' = currentFrame
        /\ pc \in RecreateStates =>
               \A o \in PersistentObjects :
                   (objects[o] = "created" /\ objects'[o] = "created")
        /\ RecreateStep =>
               (gpuVars' = gpuVars /\ uniformBuffersMapped' = uniformBuffersMapped)
      ]_vars

C31_Witness ==
    /\ pc = "advance"
    /\ tickRebuilds = 1
    /\ swapChainExtent = << WIDTH + 1, HEIGHT + 1 >>
    /\ \A o \in SwapChainObjects \cup PersistentObjects : objects[o] = "created"
    /\ graphicsQueue = {}

\* C32: the slot index changes only in the step that ends a tick which
\* reached present, and there it becomes (i+1) mod N, also when the present
\* was followed by a rebuild; the step that ends a tick abandoned at acquire
\* leaves it as it is.
C32_SlotChangesAtEndOfPresentedTick ==
    [][ /\ currentFrame' # currentFrame =>
               /\ pc = "advance"
               /\ pc' = "loop"
               /\ tickSubmitted
               /\ tickPresent # "none"
        /\ (pc = "advance" /\ pc' # pc) => currentFrame' = NextFrame(currentFrame)
        /\ (pc = "return" /\ pc' # pc) => currentFrame' = currentFrame
      ]_vars

C32_Witness ==
    /\ pc = "advance"
    /\ tick = 3
    /\ currentFrame = 1
    /\ submittedTicks = {1, 3}
    /\ tickRebuilds = 1
    /\ tickPresent = "VK_SUBOPTIMAL_KHR"

\* C34: whenever a swapchain exists there are as many image views and
\* framebuffers as swapchain images, framebuffer k binds image view k and the
\* one depth view, which has the swapchain's extent; and the image index a
\* tick records and presents with indexes the framebuffers of the swapchain
\* it was acquired from.
C34_FramebufferPerImage ==
    /\ swapChainAlive =>
           /\ DOMAIN swapChainImageViews = DOMAIN swapChainImages
           /\ DOMAIN swapChainFramebuffers = DOMAIN swapChainImages
           /\ depthImageView.extent = swapChainExtent
           /\ \A k \in DOMAIN swapChainImages :
                  /\ swapChainImageViews[k].image = k
                  /\ swapChainFramebuffers[k].attachments =
                         << swapChainImageViews[k], depthImageView >>
                  /\ swapChainFramebuffers[k].width = swapChainExtent[1]
                  /\ swapChainFramebuffers[k].height = swapChainExtent[2]
    /\ pc \in {"update", "resetFence", "record", "submit", "present"} =>
           /\ swapChainAlive
           /\ imageIndex \in DOMAIN swapChainFramebuffers
           /\ swapChainImages[imageIndex] = "acquired"

C34_Witness ==
    /\ pc = "record"
    /\ tick = 2
    /\ imageIndex = 1
    /\ swapChainExtent = << WIDTH + 1, HEIGHT + 1 >>
    /\ swapChainFramebuffers[1].attachments[1].image = 1

\* C35: each binary semaphore of a slot alternates signal and wait: no
\* render-finished semaphore is signaled again before the present waiting on
\* its earlier signal consumed it (no graphics submission is outstanding on a
\* slot whose earlier tick still has its present queued), and the slot's
\* image-acquired semaphore is unsignaled when it is handed to acquire.
C35_SemaphoresAlternate ==
    \A i \in Slots :
        /\ renderFinishedSemaphores[i] # "oversignaled"
        /\ \A s \in graphicsQueue : \A p \in presentQueue :
               (s.slot = i /\ p.slot = i) => p.tick = s.tick
        /\ (pc = "acquire" /\ currentFrame = i) =>
               imageAvailableSemaphores[i] = "unsignaled"

\* The half of C35 that holds: the image-acquired semaphore.
ImageAvailableAlternates ==
    pc = "acquire" => imageAvailableSemaphores[currentFrame] = "unsignaled"

\* C38: the viewport width and height the camera holds equal the extent of
\* the current swapchain.
C38_ViewportIsSwapChainExtent ==
    swapChainAlive =>
        /\ m_viewportWidth = swapChainExtent[1]
        /\ m_viewportHeight = swapChainExtent[2]

\* The one-shot submissions of the running upload the queue has executed.
UploadExecuted ==
    upStage + (IF upPc = "waitIdle" /\ transferQueue = {} THEN 1 ELSE 0)

C39_RejectionLeavesNothing ==
    (FnCalled("transitionImageLayout") /\ fnRet[1].end = "invalid_argument") =>
        /\ ~fnRet[1].submitted
        /\ fnRet[1].commands = << >>
        /\ fnRet[1].commandBuffer \notin {"allocated", "recording"}

\* The half of C39 that holds: a rejected pair submits nothing.
RejectionSubmitsNothing ==
    (FnCalled("transitionImageLayout") /\ fnRet[1].end = "invalid_argument") =>
        (~fnRet[1].submitted /\ fnRet[1].commands = << >>)

\* C36: the minimized wait of recreateSwapChain ends as soon as the extent
\* has been read nonzero, without needing any further window event: the host
\* waits in glfwWaitEvents for an event still to arrive only while the size
\* it last read has a zero side.
C36_WaitEndsOnNonzeroRead ==
    (pc = "rcWaitEvents" /\ ~eventsArrived) => (width = 0 \/ height = 0)

\* The half of C36 that holds: the rebuild is entered only with a size read
\* nonzero on both sides.
RebuildOnlyWithNonzeroRead ==
    pc = "rcRebuild" => (width # 0 /\ height # 0)

\* C37: every rebuild consumes the pending resize notification: when
\* recreateSwapChain has returned into drawFrame, from either trigger,
\* framebufferResized is false unless a resize callback ran during the rebuild.
C37_RebuildConsumesNotification ==
    (pc \in {"return", "advance"} /\ tickRebuilds > 0 /\ ~rcCallback) =>
        ~framebufferResized

\* The half of C37 that holds: the rebuild after the present consumes the
\* notification.
PresentRebuildConsumesNotification ==
    (pc = "advance" /\ tickRebuilds > 0 /\ ~rcCallback) => ~framebufferResized

\* The mask of the command keys held.
HeldMask(keys) ==
    (IF "GLFW_KEY_W" \in keys THEN GameCommand.forward ELSE 0)
      + (IF "GLFW_KEY_S" \in keys THEN GameCommand.backward ELSE 0)
      + (IF "GLFW_KEY_A" \in keys THEN GameCommand.left ELSE 0)
      + (IF "GLFW_KEY_D" \in keys THEN GameCommand.right ELSE 0)

\* C40: for every sequence of key events, the empty one included, the
\* command word Camera::update reads equals the mask onKey maintains, and the
\* update moves the camera only if W or S is held.
C40_CameraFollowsHeldKeys ==
    [][ (pc = "cameraUpdate" /\ pc' = "drawFrame") =>
            /\ m_command = m_gameCommand
            /\ m_pos' # m_pos => keysHeld \cap {"GLFW_KEY_W", "GLFW_KEY_S"} # {}
      ]_vars

\* The half of C40 that holds: the mask onKey maintains is the mask of the
\* command keys held, and every key event hands it to the camera.
GameCommandIsHeldKeys ==
    m_gameCommand = HeldMask(keysHeld)

SetCommandHandsMaskOver ==
    [][ m_command' # m_command => m_command' = m_gameCommand' ]_vars

====
